---- MODULE Spec2Model ----
(***************************************************************************)
(* Customer segmentation backend (backend/app): the transaction cleaner,   *)
(* the RFM feature builder, the cluster count selector, the segment namer  *)
(* and the per-business scale-and-cluster engine with its persisted        *)
(* scaler / partitioner artifacts.                                         *)
(*                                                                         *)
(* Conventions.  A pandas cell that may be missing (NaN / NaT) is an       *)
(* option: <<>> when missing, <<v>> when present.  Strings whose           *)
(* characters matter (InvoiceNo) are sequences of one-character strings.   *)
(* Timestamps are integers counted in units of 1/UnitsPerDay of a day, so  *)
(* that Timedelta.days (a floor) is a real conversion.  Money is counted   *)
(* in integer units.                                                       *)
(***************************************************************************)
EXTENDS Integers, Sequences, FiniteSets, TLC

VARIABLES
    stage,      \* position of the cleaning / RFM run
    raw,        \* the uploaded transaction rows (after column renaming)
    df_clean,   \* the cleaner's result frame (mutated in place by the RFM builder)
    rfm,        \* the RFM frame, one row per customer
    namer_pc,       \* position of the segment namer call
    cluster_means,  \* its argument: per-cluster mean scaled R, F, M
    cluster_names,  \* its result: cluster id -> segment name
    sel_pc,         \* position of the cluster count selector call
    sel_args,       \* its arguments: data, min_clusters, max_clusters
    sel_obs,        \* what the partitioner library answered during the call
    sel_out,        \* its outcome: the k returned, or the exception raised
    sel_again,      \* the outcome of the same call made a second time
    store,          \* models/<business>/: the scaler.pkl and kmeans_model.pkl files
    call,           \* the scale_and_cluster call that has run and not yet returned
    streak,         \* history: the run of identical retrain=false calls under way
    inv,            \* concurrent retrain=true invocations: position and fitted models
    map_pc,         \* column mapping: which request is being served
    mappings,       \* the column mapping of a segmentation request
    validation,     \* what validate_required_mappings returned for it
    response,       \* how segment_with_mapping went on
    user_columns,   \* the column names of an analysed CSV
    suggestions,    \* what suggest_column_mapping returned for them
    an_pc,          \* position of the generate_analytics call
    an_rfm,         \* the annotated RFM frame handed to generate_analytics
    analytics,      \* the analytics dictionary it returned
    top_pc,         \* position of the get_top_products_by_segment call
    top_args,       \* its arguments: cleaned transactions, annotated frame, top_n
    top_products,   \* the dictionary it returned
    records,        \* business_models table: the businesses that have a record
    pending,        \* background tasks save_model_info not yet run
    del_resp,       \* what the last request to the business endpoints answered
    fx_pc,          \* position of the find_optimal_clusters_fixed.find_optimal_clusters call
    fx_args,        \* its arguments and what the fits answered
    fx_out          \* the dictionary it returned

cleanVars == <<stage, raw, df_clean, rfm>>

namerVars == <<namer_pc, cluster_means, cluster_names>>

selVars == <<sel_pc, sel_args, sel_obs, sel_out, sel_again>>

engineVars == <<store, call, streak>>

raceVars == <<inv>>

mapVars == <<map_pc, mappings, validation, response, user_columns, suggestions>>

analyticsVars == <<an_pc, an_rfm, analytics>>

topVars == <<top_pc, top_args, top_products>>

dbVars == <<records, pending, del_resp>>

fixedVars == <<fx_pc, fx_args, fx_out>>

vars ==
    <<cleanVars, namerVars, selVars, engineVars, raceVars, mapVars, analyticsVars, topVars,
      dbVars, fixedVars>>

----------------------------------------------------------------------------
(* Bounds of the model *)

MaxRows == 2

(* most clusters handed to the segment namer in one call *)
MaxNamed == 2

(* largest data set (rows) and largest max_clusters given to the selector *)
MaxSamples == 7

MaxK == 6

(* most customers in an RFM frame handed to the segmentation engine *)
MaxCustomers == 3

(* retrain=false runs counted within one streak *)
MaxRuns == 2

(* most columns in a column mapping *)
MaxCols == 4

(* most columns of an analysed CSV *)
MaxUserCols == 2

(* most customers in a frame handed to generate_analytics *)
MaxAnalysed == 3

(* largest max_clusters handed to find_optimal_clusters_fixed.find_optimal_clusters *)
MaxFixedK == 4

(* most transaction rows handed to get_top_products_by_segment *)
MaxTxRows == 3

(* Timestamp resolution: units per day (a timestamp carries a time of day) *)
UnitsPerDay == 2

----------------------------------------------------------------------------
(* Options and small helpers *)

Missing == <<>>

Some(v) == <<v>>

IsNA(o) == o = <<>>

Get(o) == o[1]

SetMax(S) == CHOOSE m \in S : \A x \in S : x <= m

SetMin(S) == CHOOSE m \in S : \A x \in S : m <= x

(* the sum of f over the index set I *)
RECURSIVE SumOver(_, _)
SumOver(I, f) ==
    IF I = {} THEN 0
    ELSE LET i == CHOOSE x \in I : TRUE IN f[i] + SumOver(I \ {i}, f)

RECURSIVE SumSeq(_)
SumSeq(s) == IF s = <<>> THEN 0 ELSE Head(s) + SumSeq(Tail(s))

Range(s) == {s[i] : i \in DOMAIN s}

(* mutant: the row count instead of the distinct count *)
nunique_count(s) == Len(s)

(* Series.nunique(): the number of first occurrences in the series *)
nunique(s) == Cardinality({i \in DOMAIN s : \A j \in 1..(i - 1) : s[j] # s[i]})

(* sorted group keys of a groupby: ascending, each once *)
RECURSIVE SortedKeys(_)
SortedKeys(S) ==
    IF S = {} THEN <<>>
    ELSE LET m == SetMin(S) IN <<m>> \o SortedKeys(S \ {m})

----------------------------------------------------------------------------
(* str.strip() and str.startswith() on character sequences *)

RECURSIVE lstrip(_)
lstrip(s) == IF s # <<>> /\ Head(s) = " " THEN lstrip(Tail(s)) ELSE s

RECURSIVE rstrip(_)
rstrip(s) ==
    IF s # <<>> /\ s[Len(s)] = " " THEN rstrip(SubSeq(s, 1, Len(s) - 1)) ELSE s

strip(s) == rstrip(lstrip(s))

startswith(s, ch) == Len(s) > 0 /\ s[1] = ch

----------------------------------------------------------------------------
(* Input rows *)

CustomerIDs == {1, 2}

InvoiceNos == {<<"A">>, <<"B", " ">>, <<" ", "C", "1">>}

Timestamps == {0, 3}

(* with an invoice id that differs from another only in surrounding whitespace *)
CleanInvoiceNos == InvoiceNos \cup {<<"B">>}

(* rows whose date is fixed: every cleaning defect occurs *)
CleanRows ==
    [CustomerID : {Missing} \cup {Some(c) : c \in CustomerIDs},
     InvoiceNo : CleanInvoiceNos,
     Quantity : {0, 2},
     UnitPrice : {0, 3},
     InvoiceDate : {Some(0)}]

(* rows whose price is fixed: customers, invoices, quantities, dates vary *)
RfmRows ==
    [CustomerID : {Some(c) : c \in CustomerIDs},
     InvoiceNo : InvoiceNos,
     Quantity : {1, 2},
     UnitPrice : {3},
     InvoiceDate : {Missing} \cup {Some(t) : t \in Timestamps}]

Frames(Rows) == UNION {[1..n -> Rows] : n \in 0..MaxRows}

----------------------------------------------------------------------------
(* mutant: no row is dropped *)
drop_duplicates_none(df) == df

(* DataFrame.drop_duplicates(): keep the first of equal rows *)

drop_duplicates(df) ==
    LET keep == {i \in DOMAIN df : \A j \in 1..(i - 1) : df[j] # df[i]}
        F[i \in 0..Len(df)] ==
            IF i = 0 THEN <<>>
            ELSE IF i \in keep THEN Append(F[i - 1], df[i]) ELSE F[i - 1]
    IN F[Len(df)]

MapRows(df, f(_)) == [i \in DOMAIN df |-> f(df[i])]

(* utils.compute_totalprice *)
compute_totalprice(df) ==
    MapRows(df, LAMBDA r :
        [CustomerID |-> r.CustomerID, InvoiceNo |-> r.InvoiceNo,
         Quantity |-> r.Quantity, UnitPrice |-> r.UnitPrice,
         InvoiceDate |-> r.InvoiceDate,
         TotalPrice |-> r.Quantity * r.UnitPrice])

(* preprocessing_v2.clean_and_process_data: steps 2 and 4 *)
DropMissingCustomer(df) == SelectSeq(df, LAMBDA r : ~IsNA(r.CustomerID))

StripInvoiceNo(df) == MapRows(df, LAMBDA r : [r EXCEPT !.InvoiceNo = strip(@)])

(* mutant: zero quantities pass *)
FilterQuantity_nonneg(df) == SelectSeq(df, LAMBDA r : r.Quantity >= 0)

FilterQuantity(df) == SelectSeq(df, LAMBDA r : r.Quantity > 0)

FilterCancelled(df) == SelectSeq(df, LAMBDA r : ~startswith(r.InvoiceNo, "C"))

FilterPrice(df) == SelectSeq(df, LAMBDA r : r.UnitPrice > 0)

(* mutant: the final emptiness check is missing *)
clean_and_process_data_nocheck(df) ==
    LET d1 == DropMissingCustomer(df) IN
    IF Len(d1) = 0
    THEN [status |-> "ValueError", df |-> <<>>]
    ELSE [status |-> "ok",
          df |-> drop_duplicates(
                     FilterPrice(FilterCancelled(FilterQuantity(StripInvoiceNo(d1)))))]

clean_and_process_data(df) ==
    LET d1 == DropMissingCustomer(df) IN
    IF Len(d1) = 0
    THEN [status |-> "ValueError", df |-> <<>>]
    ELSE LET d2 == drop_duplicates(
                       FilterPrice(FilterCancelled(FilterQuantity(StripInvoiceNo(d1)))))
         IN IF Len(d2) = 0
            THEN [status |-> "ValueError", df |-> <<>>]
            ELSE [status |-> "ok", df |-> d2]

(* preprocessing.clean_raw *)
DropMissingCritical(df) ==
    SelectSeq(df, LAMBDA r : ~IsNA(r.CustomerID) /\ ~IsNA(r.InvoiceDate))

FilterQuantityPrice(df) == SelectSeq(df, LAMBDA r : r.Quantity > 0 /\ r.UnitPrice > 0)

clean_raw(df) ==
    compute_totalprice(drop_duplicates(FilterCancelled(
        FilterQuantityPrice(DropMissingCritical(StripInvoiceNo(df))))))

----------------------------------------------------------------------------
(* RFM feature builder *)

(* mutant: the group is not restricted to the customer *)
RowsOf_all(df, c) == df

RowsOf(df, c) == SelectSeq(df, LAMBDA r : r.CustomerID = Some(c))

DatesOf(df) == {Get(r.InvoiceDate) : r \in {x \in Range(df) : ~IsNA(x.InvoiceDate)}}

(* Series.max() skips NaT; NaT when nothing is left *)
MaxDate(df) == IF DatesOf(df) = {} THEN Missing ELSE Some(SetMax(DatesOf(df)))

(* max(InvoiceDate) + 1 day *)
SnapshotDate(df) ==
    IF IsNA(MaxDate(df)) THEN Missing ELSE Some(Get(MaxDate(df)) + UnitsPerDay)

(* (ref_date - x.max()).days: NaN when either side is NaT *)
RecencyDays(ref_date, last) ==
    IF IsNA(ref_date) \/ IsNA(last) THEN Missing
    ELSE Some((Get(ref_date) - Get(last)) \div UnitsPerDay)

GroupKeys(df) == SortedKeys({Get(r.CustomerID) : r \in Range(df)})

AggregateRfm(df, ref_date) ==
    LET keys == GroupKeys(df) IN
    [i \in DOMAIN keys |->
        LET g == RowsOf(df, keys[i]) IN
        [CustomerID |-> keys[i],
         Recency |-> RecencyDays(ref_date, MaxDate(g)),
         Frequency |-> nunique(MapRows(g, LAMBDA r : r.InvoiceNo)),
         Monetary |-> SumSeq(MapRows(g, LAMBDA r : r.TotalPrice))]]

(* preprocessing_v2.calculate_rfm_features: adds TotalPrice to its argument *)
calculate_rfm_features(df) == AggregateRfm(compute_totalprice(df), SnapshotDate(df))

(* a quotient of two integers, kept exact *)
Ratio(num, den) == [num |-> num, den |-> den]

(* (Monetary / Frequency).replace([inf, -inf], 0).fillna(0) *)
AverageOrderValue(monetary, frequency) ==
    IF frequency = 0 THEN Ratio(0, 1) ELSE Ratio(monetary, frequency)

MinDate(df) == IF DatesOf(df) = {} THEN Missing ELSE Some(SetMin(DatesOf(df)))

(* mutant: the days from the start of the dataset to the customer's last purchase *)
CustomerLifespan_fromstart(df, c) ==
    (Get(MaxDate(RowsOf(df, c))) - Get(MinDate(df))) \div UnitsPerDay

(* (last - first).dt.days.fillna(0): whole days between the customer's first
   and last purchase *)
CustomerLifespan(df, c) ==
    LET g == RowsOf(df, c) IN
    IF IsNA(MaxDate(g)) THEN 0
    ELSE (Get(MaxDate(g)) - Get(MinDate(g))) \div UnitsPerDay

(* preprocessing.calculate_rfm: the frame already carries TotalPrice *)
calculate_rfm(df) ==
    LET agg == AggregateRfm(df, SnapshotDate(df)) IN
    [i \in DOMAIN agg |->
        LET aov == AverageOrderValue(agg[i].Monetary, agg[i].Frequency)
            lifespan == CustomerLifespan(df, agg[i].CustomerID)
        IN [CustomerID |-> agg[i].CustomerID, Recency |-> agg[i].Recency,
            Frequency |-> agg[i].Frequency, Monetary |-> agg[i].Monetary,
            AOV |-> aov, CustomerLifespan |-> lifespan,
            CLV |-> Ratio(aov.num * agg[i].Frequency * lifespan, aov.den)]]

----------------------------------------------------------------------------
(* The cleaning / RFM run, stage by stage, for both implementations *)

(* a component that takes no part in a specification rests *)
IdleRFM == stage = "idle" /\ raw = <<>> /\ df_clean = <<>> /\ rfm = <<>>

IdleNamer == namer_pc = "idle" /\ cluster_means = <<>> /\ cluster_names = <<>>

IdleSel ==
    /\ sel_pc = "idle" /\ sel_args = <<>> /\ sel_obs = <<>> /\ sel_out = <<>>
    /\ sel_again = <<>>

IdleEngine == store = <<>> /\ call = <<>> /\ streak = <<>>

IdleRace == inv = <<>>

IdleAnalytics == an_pc = "idle" /\ an_rfm = <<>> /\ analytics = <<>>

IdleTop == top_pc = "idle" /\ top_args = <<>> /\ top_products = <<>>

IdleDB == records = <<>> /\ pending = <<>> /\ del_resp = <<>>

IdleFixed == fx_pc = "idle" /\ fx_args = <<>> /\ fx_out = <<>>

IdleMapping ==
    /\ map_pc = "idle" /\ mappings = <<>> /\ validation = <<>> /\ response = <<>>
    /\ user_columns = <<>> /\ suggestions = <<>>

InitRFM ==
    /\ stage = "uploaded"
    /\ raw \in Frames(CleanRows) \cup Frames(RfmRows)
    /\ df_clean = <<>>
    /\ rfm = <<>>
    /\ IdleNamer /\ IdleSel /\ IdleEngine /\ IdleRace /\ IdleMapping /\ IdleAnalytics /\ IdleTop /\ IdleDB
    /\ IdleFixed

CleanV2 ==
    /\ stage = "uploaded"
    /\ LET res == clean_and_process_data(raw) IN
        /\ stage' = IF res.status = "ok" THEN "cleaned_v2" ELSE "clean_error"
        /\ df_clean' = res.df
    /\ UNCHANGED <<raw, rfm>>

RfmV2 ==
    /\ stage = "cleaned_v2"
    /\ stage' = "rfm_v2"
    /\ df_clean' = compute_totalprice(df_clean)
    /\ rfm' = calculate_rfm_features(df_clean)
    /\ UNCHANGED raw

CleanLegacy ==
    /\ stage = "uploaded"
    /\ stage' = "cleaned_legacy"
    /\ df_clean' = clean_raw(raw)
    /\ UNCHANGED <<raw, rfm>>

RfmLegacy ==
    /\ stage = "cleaned_legacy"
    /\ stage' = "rfm_legacy"
    /\ rfm' = calculate_rfm(df_clean)
    /\ UNCHANGED <<raw, df_clean>>

NextRFM ==
    /\ CleanV2 \/ RfmV2 \/ CleanLegacy \/ RfmLegacy
    /\ UNCHANGED <<namerVars, selVars, engineVars, raceVars, mapVars, analyticsVars, topVars, dbVars, fixedVars>>

SpecRFM == InitRFM /\ [][NextRFM]_vars

----------------------------------------------------------------------------
(* Segment namer: preprocessing_v2.auto_name_segments *)

MeanValues == {-1, 0, 1}

(* mutant: a mean of exactly 0 counts as recent *)
IsRecent_le(recency) == recency <= 0

IsRecent(recency) == recency < 0

IsFrequent(frequency) == frequency > 0

IsHighValue(monetary) == monetary > 0

SegmentName(recent, frequent, high_value) ==
    IF recent /\ frequent /\ high_value THEN "Champions"
    ELSE IF recent /\ frequent /\ ~high_value THEN "Loyal Customers"
    ELSE IF recent /\ ~frequent /\ high_value THEN "Big Spenders"
    ELSE IF recent /\ ~frequent /\ ~high_value THEN "New Customers"
    ELSE IF ~recent /\ frequent /\ high_value THEN "At-Risk VIPs"
    ELSE IF ~recent /\ frequent /\ ~high_value THEN "Cannot Lose Them"
    ELSE IF ~recent /\ ~frequent /\ high_value THEN "Hibernating VIPs"
    ELSE "Lost Customers"

(* the dict built by the loop: a later row of the same cluster id overwrites *)
auto_name_segments(means) ==
    [c \in {means[i].Cluster : i \in DOMAIN means} |->
        LET last == SetMax({i \in DOMAIN means : means[i].Cluster = c})
        IN SegmentName(IsRecent(means[last].Recency),
                       IsFrequent(means[last].Frequency),
                       IsHighValue(means[last].Monetary))]

(* the frame of a groupby('Cluster').mean().reset_index(): one row per cluster id *)
MeanFrame(t) ==
    [i \in DOMAIN t |-> [Cluster |-> i - 1, Recency |-> t[i][1],
                          Frequency |-> t[i][2], Monetary |-> t[i][3]]]

InitNamer ==
    /\ namer_pc = "called"
    /\ \E n \in 1..MaxNamed :
        \E t \in [1..n -> MeanValues \X MeanValues \X MeanValues] :
            cluster_means = MeanFrame(t)
    /\ cluster_names = <<>>
    /\ IdleRFM /\ IdleSel /\ IdleEngine /\ IdleRace /\ IdleMapping /\ IdleAnalytics /\ IdleTop /\ IdleDB
    /\ IdleFixed

AutoNameSegments ==
    /\ namer_pc = "called"
    /\ namer_pc' = "named"
    /\ cluster_names' = auto_name_segments(cluster_means)
    /\ UNCHANGED cluster_means

NextNamer ==
    /\ AutoNameSegments
    /\ UNCHANGED <<cleanVars, selVars, engineVars, raceVars, mapVars, analyticsVars, topVars, dbVars, fixedVars>>

SpecNamer == InitNamer /\ [][NextNamer]_vars

----------------------------------------------------------------------------
(* Cluster count selector: preprocessing_v2.find_optimal_clusters.          *)
(* The partitioner (sklearn KMeans) is the environment: each fit answers    *)
(* with an inertia, or raises when the data holds NaN / inf.  data is       *)
(* [len, finite]: len is missing when len(data) raises (an unsized object). *)

MinK == 2

PreferredK == 4

FallbackK == 4

BiasPercent == 85

InertiaValues == {0, 1, 4}

Min2(a, b) == IF a <= b THEN a ELSE b

Max2(a, b) == IF a >= b THEN a ELSE b

Abs(x) == IF x < 0 THEN 0 - x ELSE x

SelectorData ==
    [len : {Missing} \cup {Some(n) : n \in 0..MaxSamples}, finite : BOOLEAN]

SelectorArgs ==
    {a \in [data : SelectorData, min_clusters : MinK..MaxK, max_clusters : MinK..MaxK] :
        a.min_clusters <= a.max_clusters}

Return(k, handled) == [kind |-> "return", k |-> k, handled |-> handled]

Raise(exc) == [kind |-> "raise", exc |-> exc, handled |-> TRUE]

(* the k values the loop fits: empty when the call ends before the loop, one
   (raising) fit is attempted when the data is not finite *)
max_possible_clusters(a) == Min2(a.max_clusters, Get(a.data.len) - 1)

cluster_range(a) ==
    IF IsNA(a.data.len) \/ max_possible_clusters(a) < a.min_clusters \/ ~a.data.finite
    THEN {}
    ELSE a.min_clusters..max_possible_clusters(a)

(* knee distance of point i, times the positive factor common to all points:
   |(y2-y1)*x0 - (x2-x1)*y0 + x2*y1 - y2*x1| on the normalised curve.  With a
   flat curve y_norm is NaN, "denominator > 0" is false and the distance is 0 *)
KneeDistance(inertias, i) ==
    LET m == Len(inertias) IN
    IF SetMax(Range(inertias)) = SetMin(Range(inertias)) THEN 0
    ELSE Abs((inertias[m] - inertias[1]) * (i - 1)
             - (inertias[i] - inertias[1]) * (m - 1))

(* np.argmax: the first index of the maximum *)
argmax(d) == SetMin({i \in DOMAIN d : \A j \in DOMAIN d : d[j] <= d[i]})

(* mutant: the knee point is returned whatever the distance of k = 4 *)
ElbowChoice_nobias(min_clusters, inertias) ==
    min_clusters + argmax([i \in 1..Len(inertias) |-> KneeDistance(inertias, i)]) - 1

ElbowChoice(min_clusters, inertias) ==
    LET m == Len(inertias)
        distances == [i \in 1..m |-> KneeDistance(inertias, i)]
        max_distance_idx == argmax(distances)
        knee_point == min_clusters + max_distance_idx - 1
        idx_4_clusters == PreferredK - min_clusters + 1
    IN IF idx_4_clusters \in 1..m
       THEN IF 100 * distances[idx_4_clusters] >= BiasPercent * distances[max_distance_idx]
            THEN PreferredK
            ELSE knee_point
       ELSE knee_point

(* the rate-of-change loop divides by inertias[i-1]: a ZeroDivisionError when
   the library hands out Python floats, inf / nan when it hands out numpy ones *)
RateDividesByZero(inertias) == \E i \in 1..(Len(inertias) - 1) : inertias[i] = 0

find_optimal_clusters(a, inertia_of, py_float) ==
    IF IsNA(a.data.len)
    THEN Raise("UnboundLocalError")
    ELSE IF max_possible_clusters(a) < a.min_clusters
    THEN Return(a.min_clusters, FALSE)
    ELSE IF ~a.data.finite
    THEN Return(Min2(FallbackK, max_possible_clusters(a)), TRUE)
    ELSE LET inertias ==
                 [i \in 1..(max_possible_clusters(a) - a.min_clusters + 1) |->
                     inertia_of[a.min_clusters + i - 1]]
         IN IF Len(inertias) >= 3
            THEN IF py_float /\ RateDividesByZero(inertias)
                 THEN Return(Min2(FallbackK, max_possible_clusters(a)), TRUE)
                 ELSE Return(ElbowChoice(a.min_clusters, inertias), FALSE)
            ELSE Return(a.min_clusters, FALSE)

InitSel ==
    /\ sel_pc = "called"
    /\ sel_args \in SelectorArgs
    /\ sel_obs = <<>>
    /\ sel_out = <<>>
    /\ sel_again = <<>>
    /\ IdleRFM /\ IdleNamer /\ IdleEngine /\ IdleRace /\ IdleMapping /\ IdleAnalytics /\ IdleTop /\ IdleDB
    /\ IdleFixed

FindOptimalClusters ==
    /\ sel_pc = "called"
    /\ \E inertia_of \in [cluster_range(sel_args) -> InertiaValues], py_float \in BOOLEAN :
        /\ sel_obs' = [inertia_of |-> inertia_of, py_float |-> py_float]
        /\ sel_out' = find_optimal_clusters(sel_args, inertia_of, py_float)
    /\ sel_pc' = "done"
    /\ UNCHANGED <<sel_args, sel_again>>

(* mutant: KMeans without a seed *)
random_state_none == Missing

(* line 241: KMeans(n_clusters=n_clusters, random_state=42, n_init=10) *)
random_state == Some(42)

(* what the library may answer when the fits of a call are run again on the
   same array: with a seed a fit is a function of the array and of k *)
RepeatedFitAnswers(first) ==
    IF IsNA(random_state) THEN [DOMAIN first -> InertiaValues] ELSE {first}

(* the caller repeats the call with the same array and the same bounds *)
FindOptimalClustersAgain ==
    /\ sel_pc = "done"
    /\ \E inertia_of \in RepeatedFitAnswers(sel_obs.inertia_of) :
        sel_again' = find_optimal_clusters(sel_args, inertia_of, sel_obs.py_float)
    /\ sel_pc' = "repeated"
    /\ UNCHANGED <<sel_args, sel_obs, sel_out>>

NextSel ==
    /\ FindOptimalClusters \/ FindOptimalClustersAgain
    /\ UNCHANGED <<cleanVars, namerVars, engineVars, raceVars, mapVars, analyticsVars, topVars, dbVars, fixedVars>>

SpecSel == InitSel /\ [][NextSel]_vars

----------------------------------------------------------------------------
(* Segmentation engine: preprocessing_v2.scale_and_cluster.                 *)
(*                                                                          *)
(* np.log1p is a table of 100*ln(1+x) rounded.  A fitted StandardScaler is  *)
(* the sample count and the column sums it was fitted on (mean = sum / n);  *)
(* transform yields n*sigma times the scaled value, which has the scaled    *)
(* value's sign, and only signs of cluster means are read downstream.  A    *)
(* fitted KMeans is its n_clusters and the label it gives each feature      *)
(* point.  The library is the environment: a fit answers with any labelling *)
(* that uses min(k, distinct points) labels on the training data, and       *)
(* raises when there are fewer samples than clusters; silhouette_score      *)
(* raises unless 2 <= number of labels <= samples - 1.                      *)

Businesses == {"acme"}

DefaultMaxClusters == 10

Log1pTable == <<0, 69, 110, 139, 161, 179, 195, 208, 220>>

log1p(x) == Log1pTable[x + 1]

(* the (Recency, Frequency, Monetary) values customers take *)
PointList == <<(<<1, 2, 6>>), (<<4, 1, 3>>), (<<8, 1, 3>>)>>

Points == Range(PointList)

(* the frames calculate_rfm_features hands over: one row per customer, in
   CustomerID order.  The engine treats rows alike, so frames are taken up to
   a reordering of the customers: the features follow PointList's order *)
RfmFrames ==
    UNION {{[i \in 1..n |-> [CustomerID |-> i, Recency |-> PointList[t[i]][1],
                              Frequency |-> PointList[t[i]][2],
                              Monetary |-> PointList[t[i]][3]]] :
               t \in {u \in [1..n -> DOMAIN PointList] :
                          \A i \in 1..(n - 1) : u[i] <= u[i + 1]}} :
           n \in 1..MaxCustomers}

PointOf(row) == <<row.Recency, row.Frequency, row.Monetary>>

(* rfm[features_for_clustering].apply(np.log1p) *)
log_features(frame) ==
    [i \in DOMAIN frame |->
        <<log1p(frame[i].Recency), log1p(frame[i].Frequency), log1p(frame[i].Monetary)>>]

ColumnSum(X, j) == SumSeq([i \in DOMAIN X |-> X[i][j]])

scaler_fit(X) ==
    [n_samples |-> Len(X), sum |-> <<ColumnSum(X, 1), ColumnSum(X, 2), ColumnSum(X, 3)>>]

scaler_transform(scaler, X) ==
    [i \in DOMAIN X |-> [j \in 1..3 |-> scaler.n_samples * X[i][j] - scaler.sum[j]]]

(* the labellings a KMeans(n_clusters=k).fit on the frame may end with *)
FitResults(frame, k) ==
    LET present == {PointOf(frame[i]) : i \in DOMAIN frame} IN
    {g \in [Points -> 0..(k - 1)] :
        Cardinality({g[p] : p \in present}) = Min2(k, Cardinality(present))}

(* mutant: labels counted from 1 *)
kmeans_predict_from1(kmeans, frame) ==
    [i \in DOMAIN frame |-> kmeans.label_of[PointOf(frame[i])] + 1]

kmeans_predict(kmeans, frame) == [i \in DOMAIN frame |-> kmeans.label_of[PointOf(frame[i])]]

silhouette_raises(labels) ==
    ~(2 <= Cardinality(Range(labels)) /\ Cardinality(Range(labels)) <= Len(labels) - 1)

(* the k values find_optimal_clusters(rfm_scaled_array) may return *)
SelectedK(frame) ==
    LET a == [data |-> [len |-> Some(Len(frame)), finite |-> TRUE],
              min_clusters |-> MinK, max_clusters |-> DefaultMaxClusters]
    IN {find_optimal_clusters(a, inertia_of, py_float).k :
            inertia_of \in [cluster_range(a) -> InertiaValues], py_float \in BOOLEAN}

(* files of the artifact directory *)
AbsentFile == [kind |-> "absent", obj |-> <<>>]

CorruptFile == [kind |-> "corrupt", obj |-> <<>>]

SavedFile(obj) == [kind |-> "ok", obj |-> <<obj>>]

exists(file) == file.kind # "absent"

load_raises(file) == file.kind = "corrupt"

(* rfm_scaled_df.groupby('Cluster')[features].mean().reset_index(): one row per
   label in use, in label order (sums: the means times the group sizes) *)
ClusterMeans(Xs, labels) ==
    LET ids == SortedKeys(Range(labels)) IN
    [c \in DOMAIN ids |->
        LET members == SelectSeq([i \in DOMAIN Xs |-> <<labels[i], Xs[i]>>],
                                 LAMBDA m : m[1] = ids[c])
        IN [Cluster |-> ids[c],
            Recency |-> SumSeq([i \in DOMAIN members |-> members[i][2][1]]),
            Frequency |-> SumSeq([i \in DOMAIN members |-> members[i][2][2]]),
            Monetary |-> SumSeq([i \in DOMAIN members |-> members[i][2][3]])]]

(* lines 506-521: the frame annotated with Cluster and Cluster_Name *)
Annotate(frame, Xs, labels) ==
    LET cluster_name_mapping == auto_name_segments(ClusterMeans(Xs, labels)) IN
    [i \in DOMAIN frame |->
        [CustomerID |-> frame[i].CustomerID, Cluster |-> labels[i],
         Cluster_Name |-> cluster_name_mapping[labels[i]]]]

Outcome(status, path, files, loaded, load_failed, fitted, saved, fallbacks, out) ==
    [status |-> status, path |-> path, files |-> files, loaded |-> loaded,
     load_failed |-> load_failed, fitted |-> fitted, saved |-> saved,
     fallbacks |-> fallbacks, out |-> out]

(* lines 458-484 and 506-543: fit, measure, save, annotate; k and g are the
   selector's and the partitioner's answers *)
(* mutant: the models are saved as soon as they are fitted, before the metrics *)
TrainPath_savefirst(frame, files, k, g, path, loaded, load_failed, fallbacks) ==
    LET X == log_features(frame)
        scaler == scaler_fit(X)
        Xs == scaler_transform(scaler, X)
        kmeans == [n_clusters |-> k, label_of |-> g]
        cluster_labels == kmeans_predict(kmeans, frame)
        saved == [scaler |-> SavedFile(scaler), kmeans |-> SavedFile(kmeans)]
    IN IF Len(frame) < k
       THEN Outcome("error", path, files, loaded, load_failed, TRUE, FALSE, fallbacks, <<>>)
       ELSE IF silhouette_raises(cluster_labels)
       THEN Outcome("error", path, saved, loaded, load_failed, TRUE, TRUE, fallbacks, <<>>)
       ELSE Outcome("ok", path, saved, loaded, load_failed, TRUE, TRUE, fallbacks,
                    Annotate(frame, Xs, cluster_labels))

TrainPath(frame, files, k, g, path, loaded, load_failed, fallbacks) ==
    LET X == log_features(frame)
        scaler == scaler_fit(X)
        Xs == scaler_transform(scaler, X)
        kmeans == [n_clusters |-> k, label_of |-> g]
        cluster_labels == kmeans_predict(kmeans, frame)
    IN IF Len(frame) < k \/ silhouette_raises(cluster_labels)
       THEN Outcome("error", path, files, loaded, load_failed, TRUE, FALSE, fallbacks, <<>>)
       ELSE Outcome("ok", path,
                    [scaler |-> SavedFile(scaler), kmeans |-> SavedFile(kmeans)],
                    loaded, load_failed, TRUE, TRUE, fallbacks,
                    Annotate(frame, Xs, cluster_labels))

(* the load path without its except clause: a failed load reaches the caller *)
LoadPath_reraise(frame, files, k, g) ==
    IF load_raises(files.scaler) \/ load_raises(files.kmeans)
    THEN Outcome("error", "load", files, FALSE, TRUE, FALSE, FALSE, 0, <<>>)
    ELSE TrainPath(frame, files, k, g, "fallback", TRUE, FALSE, 1)

(* lines 486-504: load, transform, predict, measure; any exception in the try
   block re-enters scale_and_cluster with retrain=True *)
LoadPath(frame, files, k, g) ==
    IF load_raises(files.scaler) \/ load_raises(files.kmeans)
    THEN TrainPath(frame, files, k, g, "fallback", FALSE, TRUE, 1)
    ELSE LET scaler == Get(files.scaler.obj)
             kmeans == Get(files.kmeans.obj)
             Xs == scaler_transform(scaler, log_features(frame))
             cluster_labels == kmeans_predict(kmeans, frame)
         IN IF silhouette_raises(cluster_labels)
            THEN TrainPath(frame, files, k, g, "fallback", TRUE, FALSE, 1)
            ELSE Outcome("ok", "load", files, TRUE, FALSE, FALSE, FALSE, 0,
                         Annotate(frame, Xs, cluster_labels))

(* a condition that ignores the retrain flag and the files *)
ShouldTrain_always(retrain, files) == TRUE

(* line 457 *)
ShouldTrain(retrain, files) == retrain \/ ~(exists(files.scaler) /\ exists(files.kmeans))

scale_and_cluster(frame, files, retrain, k, g) ==
    IF ShouldTrain(retrain, files)
    THEN TrainPath(frame, files, k, g, "train", FALSE, FALSE, 0)
    ELSE LoadPath(frame, files, k, g)

(* the partitioner's answers that the call can consume: one when it never fits *)
FitAnswers(frame, files, retrain, k) ==
    IF scale_and_cluster(frame, files, retrain, k, CHOOSE g \in FitResults(frame, k) : TRUE).fitted
    THEN FitResults(frame, k)
    ELSE {CHOOSE g \in FitResults(frame, k) : TRUE}

NoCall ==
    [business |-> "", rfm |-> <<>>, retrain |-> FALSE, status |-> "none", path |-> "none",
     loaded |-> FALSE, load_failed |-> FALSE, fitted |-> FALSE, saved |-> FALSE,
     fallbacks |-> 0, out |-> <<>>]

NoStreak == [active |-> FALSE, business |-> "", rfm |-> <<>>, runs |-> 0, out |-> <<>>]

Init ==
    /\ store = [b \in Businesses |-> [scaler |-> AbsentFile, kmeans |-> AbsentFile]]
    /\ call = NoCall
    /\ streak = NoStreak
    /\ IdleRFM /\ IdleNamer /\ IdleSel /\ IdleRace /\ IdleMapping /\ IdleAnalytics /\ IdleTop /\ IdleDB
    /\ IdleFixed

(* a streak is a successful retrain=true run followed by retrain=false runs
   for the same business on the identical frame, nothing else in between; it
   keeps what the first of those retrain=false runs returned *)
NextStreak(b, frame, retrain, res) ==
    IF retrain
    THEN IF res.status = "ok"
         THEN [active |-> TRUE, business |-> b, rfm |-> frame, runs |-> 0, out |-> <<>>]
         ELSE NoStreak
    ELSE IF streak.active /\ streak.business = b /\ streak.rfm = frame
         THEN [streak EXCEPT !.runs = Min2(streak.runs + 1, MaxRuns),
                             !.out = IF streak.runs = 0 THEN res.out ELSE streak.out]
         ELSE NoStreak

ScaleAndCluster ==
    /\ call = NoCall
    /\ \E b \in Businesses, frame \in RfmFrames, retrain \in BOOLEAN :
        \E k \in SelectedK(frame) :
            \E g \in FitAnswers(frame, store[b], retrain, k) :
                \E res \in {scale_and_cluster(frame, store[b], retrain, k, g)} :
                    /\ store' = [store EXCEPT ![b] = res.files]
                    /\ call' = [business |-> b, rfm |-> frame, retrain |-> retrain,
                                status |-> res.status, path |-> res.path,
                                loaded |-> res.loaded, load_failed |-> res.load_failed,
                                fitted |-> res.fitted, saved |-> res.saved,
                                fallbacks |-> res.fallbacks, out |-> res.out]
                    /\ streak' = NextStreak(b, frame, retrain, res)
    /\ UNCHANGED <<cleanVars, namerVars, selVars, raceVars, mapVars, analyticsVars, topVars, dbVars, fixedVars>>

(* process_full_pipeline, lines 700-704 and 722-728: the cleaning or the RFM
   stage raises and the run ends before scale_and_cluster is called *)
PipelineFailsEarly ==
    /\ call = NoCall
    /\ \E b \in Businesses, retrain \in BOOLEAN :
        call' = [NoCall EXCEPT !.business = b, !.retrain = retrain,
                               !.status = "error", !.path = "clean"]
    /\ UNCHANGED <<store, streak, cleanVars, namerVars, selVars, raceVars, mapVars, analyticsVars, topVars, dbVars, fixedVars>>

(* lines 543 and 547: the result, or the exception, reaches the caller *)
Deliver ==
    /\ call # NoCall
    /\ call' = NoCall
    /\ UNCHANGED <<store, streak, cleanVars, namerVars, selVars, raceVars, mapVars, analyticsVars, topVars, dbVars, fixedVars>>

(* between calls a persisted file becomes unreadable (truncated write, disk
   fault) *)
CorruptScaler ==
    /\ call = NoCall
    /\ \E b \in Businesses :
        /\ store[b].scaler.kind = "ok"
        /\ store' = [store EXCEPT ![b].scaler = CorruptFile]
    /\ streak' = NoStreak
    /\ UNCHANGED <<call, cleanVars, namerVars, selVars, raceVars, mapVars, analyticsVars, topVars, dbVars, fixedVars>>

CorruptKMeans ==
    /\ call = NoCall
    /\ \E b \in Businesses :
        /\ store[b].kmeans.kind = "ok"
        /\ store' = [store EXCEPT ![b].kmeans = CorruptFile]
    /\ streak' = NoStreak
    /\ UNCHANGED <<call, cleanVars, namerVars, selVars, raceVars, mapVars, analyticsVars, topVars, dbVars, fixedVars>>

Next == ScaleAndCluster \/ PipelineFailsEarly \/ Deliver \/ CorruptScaler \/ CorruptKMeans

Spec == Init /\ [][Next]_vars

----------------------------------------------------------------------------
(* Concurrent retrain=true invocations of scale_and_cluster for one         *)
(* business, each in its own worker: an invocation fits its scaler and      *)
(* partitioner in memory (lines 458-476), then writes scaler.pkl (line 482),*)
(* then kmeans_model.pkl (line 483).  Nothing orders the writes of          *)
(* different invocations.                                                   *)

Requests == {1, 2}

RaceBusiness == "acme"

NotStarted == [pc |-> "idle", scaler |-> <<>>, kmeans |-> <<>>]

InitRace ==
    /\ inv = [r \in Requests |-> NotStarted]
    /\ store = [b \in Businesses |-> [scaler |-> AbsentFile, kmeans |-> AbsentFile]]
    /\ call = NoCall
    /\ streak = NoStreak
    /\ IdleRFM /\ IdleNamer /\ IdleSel /\ IdleMapping /\ IdleAnalytics /\ IdleTop /\ IdleDB
    /\ IdleFixed

(* lines 458-476: fit_transform, find_optimal_clusters, fit_predict, metrics *)
FitModels(r) ==
    /\ inv[r].pc = "idle"
    /\ \E frame \in RfmFrames :
        \E k \in SelectedK(frame) :
            \E g \in FitResults(frame, k) :
                \E res \in {TrainPath(frame, store[RaceBusiness], k, g, "train", FALSE, FALSE, 0)} :
                    inv' = [inv EXCEPT ![r] =
                                IF res.status = "ok"
                                THEN [pc |-> "fitted", scaler |-> res.files.scaler.obj,
                                      kmeans |-> res.files.kmeans.obj]
                                ELSE [pc |-> "raised", scaler |-> <<>>, kmeans |-> <<>>]]
    /\ UNCHANGED <<engineVars, cleanVars, namerVars, selVars, mapVars, analyticsVars, topVars, dbVars, fixedVars>>

(* line 482: joblib.dump(scaler, scaler_path) *)
DumpScaler(r) ==
    /\ inv[r].pc = "fitted"
    /\ store' = [store EXCEPT ![RaceBusiness].scaler = SavedFile(Get(inv[r].scaler))]
    /\ inv' = [inv EXCEPT ![r].pc = "scaler_saved"]
    /\ UNCHANGED <<call, streak, cleanVars, namerVars, selVars, mapVars, analyticsVars, topVars, dbVars, fixedVars>>

(* line 483: joblib.dump(kmeans, kmeans_path), then the rest of the call *)
DumpKMeans(r) ==
    /\ inv[r].pc = "scaler_saved"
    /\ store' = [store EXCEPT ![RaceBusiness].kmeans = SavedFile(Get(inv[r].kmeans))]
    /\ inv' = [inv EXCEPT ![r].pc = "returned"]
    /\ UNCHANGED <<call, streak, cleanVars, namerVars, selVars, mapVars, analyticsVars, topVars, dbVars, fixedVars>>

NextRace == \E r \in Requests : FitModels(r) \/ DumpScaler(r) \/ DumpKMeans(r)

SpecRace == InitRace /\ [][NextRace]_vars

(* A retrain=false invocation loading the files of the business while a
   retrain=true invocation writes them: "prior" is the training run that left
   the files in place, "trainer" the concurrent retrain, "loader" the
   invocation that loads (lines 489-490) *)
InitLoadRace ==
    /\ \E frame \in RfmFrames :
        \E k \in SelectedK(frame) :
            \E g \in FitResults(frame, k) :
                \E res \in {TrainPath(frame, [scaler |-> AbsentFile, kmeans |-> AbsentFile],
                                      k, g, "train", FALSE, FALSE, 0)} :
                    /\ res.status = "ok"
                    /\ store = [b \in Businesses |-> res.files]
                    /\ inv = [prior |-> [pc |-> "returned", scaler |-> res.files.scaler.obj,
                                         kmeans |-> res.files.kmeans.obj],
                              trainer |-> NotStarted,
                              loader |-> NotStarted]
    /\ call = NoCall
    /\ streak = NoStreak
    /\ IdleRFM /\ IdleNamer /\ IdleSel /\ IdleMapping /\ IdleAnalytics /\ IdleTop /\ IdleDB
    /\ IdleFixed

(* line 489: scaler = joblib.load(scaler_path) *)
LoadScaler ==
    /\ inv.loader.pc = "idle"
    /\ exists(store[RaceBusiness].scaler) /\ exists(store[RaceBusiness].kmeans)
    /\ inv' = [inv EXCEPT !.loader = [pc |-> "scaler_loaded",
                                      scaler |-> store[RaceBusiness].scaler.obj,
                                      kmeans |-> <<>>]]
    /\ UNCHANGED <<engineVars, cleanVars, namerVars, selVars, mapVars, analyticsVars, topVars, dbVars, fixedVars>>

(* line 490: kmeans = joblib.load(kmeans_path) *)
LoadKMeans ==
    /\ inv.loader.pc = "scaler_loaded"
    /\ inv' = [inv EXCEPT !.loader.pc = "loaded",
                          !.loader.kmeans = store[RaceBusiness].kmeans.obj]
    /\ UNCHANGED <<engineVars, cleanVars, namerVars, selVars, mapVars, analyticsVars, topVars, dbVars, fixedVars>>

NextLoadRace ==
    \/ FitModels("trainer") \/ DumpScaler("trainer") \/ DumpKMeans("trainer")
    \/ LoadScaler \/ LoadKMeans

SpecLoadRace == InitLoadRace /\ [][NextLoadRace]_vars

(* C30: the scaler and the partitioner that the retrain=false invocation has
   loaded were written by one and the same training run *)
C30_LoadedPairFromOneRun ==
    inv.loader.pc = "loaded" =>
        \E w \in {"prior", "trainer"} :
            /\ inv[w].scaler # <<>>
            /\ inv.loader.scaler = inv[w].scaler
            /\ inv.loader.kmeans = inv[w].kmeans

(* C11: once both concurrent retrain=true invocations for the business have
   completed, the persisted scaler and the persisted partitioner are those of
   one and the same invocation *)
C11_ArtifactsFromOneInvocation ==
    (\A r \in Requests : inv[r].pc = "returned")
    => \E r \in Requests :
        /\ store[RaceBusiness].scaler = SavedFile(Get(inv[r].scaler))
        /\ store[RaceBusiness].kmeans = SavedFile(Get(inv[r].kmeans))

----------------------------------------------------------------------------
(* Column mapping: column_mapping.suggest_column_mapping,                   *)
(* column_mapping.validate_required_mappings and the validation step of     *)
(* main.segment_with_mapping.  Column names are character sequences, so     *)
(* lower(), strip() and the `in` substring test are real operations.        *)

LowerCase == <<"a", "b", "c", "d", "e", "f", "g", "h", "i", "j", "k", "l", "m", "n", "o", "p", "q", "r", "s", "t", "u", "v", "w", "x", "y", "z">>

UpperCase == <<"A", "B", "C", "D", "E", "F", "G", "H", "I", "J", "K", "L", "M", "N", "O", "P", "Q", "R", "S", "T", "U", "V", "W", "X", "Y", "Z">>

lower_char(c) ==
    IF \E i \in DOMAIN UpperCase : UpperCase[i] = c
    THEN LowerCase[CHOOSE i \in DOMAIN UpperCase : UpperCase[i] = c]
    ELSE c

(* mutant: the name is matched as typed *)
lower_asis(name) == name

lower(name) == [i \in DOMAIN name |-> lower_char(name[i])]

(* Python's `a in b` on strings *)
Contains(a, b) ==
    \E o \in 0..(Len(b) - Len(a)) : \A i \in DOMAIN a : b[o + i] = a[i]

mapping_patterns ==
    <<
    [field |-> "InvoiceNo", patterns |-> <<
        <<"i", "n", "v", "o", "i", "c", "e">>,
        <<"i", "n", "v", "o", "i", "c", "e", "_", "n", "o">>,
        <<"i", "n", "v", "o", "i", "c", "e", "_", "n", "u", "m", "b", "e", "r">>,
        <<"i", "n", "v", "o", "i", "c", "e", "n", "o">>,
        <<"o", "r", "d", "e", "r", "_", "i", "d">>,
        <<"o", "r", "d", "e", "r">>,
        <<"t", "r", "a", "n", "s", "a", "c", "t", "i", "o", "n", "_", "i", "d">>,
        <<"t", "r", "a", "n", "s", "_", "i", "d">>,
        <<"r", "e", "c", "e", "i", "p", "t">>>>],
    [field |-> "CustomerID", patterns |-> <<
        <<"c", "u", "s", "t", "o", "m", "e", "r">>,
        <<"c", "u", "s", "t", "o", "m", "e", "r", "_", "i", "d">>,
        <<"c", "u", "s", "t", "o", "m", "e", "r", "i", "d">>,
        <<"c", "u", "s", "t", "_", "i", "d">>,
        <<"c", "u", "s", "t", "i", "d">>,
        <<"u", "s", "e", "r", "_", "i", "d">>,
        <<"u", "s", "e", "r", "i", "d">>,
        <<"c", "l", "i", "e", "n", "t", "_", "i", "d">>,
        <<"c", "l", "i", "e", "n", "t", "i", "d">>,
        <<"i", "d">>>>],
    [field |-> "Quantity", patterns |-> <<
        <<"q", "u", "a", "n", "t", "i", "t", "y">>,
        <<"q", "t", "y">>,
        <<"a", "m", "o", "u", "n", "t">>,
        <<"c", "o", "u", "n", "t">>,
        <<"u", "n", "i", "t", "s">>,
        <<"p", "i", "e", "c", "e", "s">>>>],
    [field |-> "UnitPrice", patterns |-> <<
        <<"p", "r", "i", "c", "e">>,
        <<"u", "n", "i", "t", "_", "p", "r", "i", "c", "e">>,
        <<"u", "n", "i", "t", "p", "r", "i", "c", "e">>,
        <<"c", "o", "s", "t">>,
        <<"a", "m", "o", "u", "n", "t">>,
        <<"v", "a", "l", "u", "e">>,
        <<"r", "a", "t", "e">>,
        <<"u", "n", "i", "t", "_", "c", "o", "s", "t">>>>],
    [field |-> "InvoiceDate", patterns |-> <<
        <<"d", "a", "t", "e">>,
        <<"i", "n", "v", "o", "i", "c", "e", "_", "d", "a", "t", "e">>,
        <<"i", "n", "v", "o", "i", "c", "e", "d", "a", "t", "e">>,
        <<"o", "r", "d", "e", "r", "_", "d", "a", "t", "e">>,
        <<"o", "r", "d", "e", "r", "d", "a", "t", "e">>,
        <<"t", "r", "a", "n", "s", "a", "c", "t", "i", "o", "n", "_", "d", "a", "t", "e">>,
        <<"t", "r", "a", "n", "s", "_", "d", "a", "t", "e">>,
        <<"t", "i", "m", "e", "s", "t", "a", "m", "p">>,
        <<"d", "a", "t", "e", "t", "i", "m", "e">>>>],
    [field |-> "StockCode", patterns |-> <<
        <<"s", "t", "o", "c", "k">>,
        <<"s", "t", "o", "c", "k", "_", "c", "o", "d", "e">>,
        <<"s", "t", "o", "c", "k", "c", "o", "d", "e">>,
        <<"p", "r", "o", "d", "u", "c", "t", "_", "c", "o", "d", "e">>,
        <<"p", "r", "o", "d", "u", "c", "t", "c", "o", "d", "e">>,
        <<"i", "t", "e", "m", "_", "c", "o", "d", "e">>,
        <<"i", "t", "e", "m", "c", "o", "d", "e">>,
        <<"s", "k", "u">>,
        <<"p", "r", "o", "d", "u", "c", "t", "_", "i", "d">>,
        <<"i", "t", "e", "m", "_", "i", "d">>>>],
    [field |-> "Description", patterns |-> <<
        <<"d", "e", "s", "c", "r", "i", "p", "t", "i", "o", "n">>,
        <<"d", "e", "s", "c">>,
        <<"p", "r", "o", "d", "u", "c", "t">>,
        <<"i", "t", "e", "m">>,
        <<"p", "r", "o", "d", "u", "c", "t", "_", "n", "a", "m", "e">>,
        <<"p", "r", "o", "d", "u", "c", "t", "n", "a", "m", "e">>,
        <<"i", "t", "e", "m", "_", "n", "a", "m", "e">>,
        <<"i", "t", "e", "m", "n", "a", "m", "e">>,
        <<"p", "r", "o", "d", "u", "c", "t", "_", "d", "e", "s", "c", "r", "i", "p", "t", "i", "o", "n">>>>],
    [field |-> "Country", patterns |-> <<
        <<"c", "o", "u", "n", "t", "r", "y">>,
        <<"l", "o", "c", "a", "t", "i", "o", "n">>,
        <<"r", "e", "g", "i", "o", "n">>,
        <<"n", "a", "t", "i", "o", "n">>,
        <<"t", "e", "r", "r", "i", "t", "o", "r", "y">>>>]
    >>

(* lines 127-128: the first pattern of the list that matches, if any *)
AnyPatternMatches(patterns, user_col_lower) ==
    \E i \in DOMAIN patterns :
        Contains(patterns[i], user_col_lower) \/ Contains(user_col_lower, patterns[i])

(* lines 126-132: the standard columns in dictionary order; the first with a
   matching pattern ends the search *)
RECURSIVE FirstMatch(_, _)
FirstMatch(from, user_col_lower) ==
    IF from > Len(mapping_patterns) THEN Missing
    ELSE IF AnyPatternMatches(mapping_patterns[from].patterns, user_col_lower)
    THEN Some(mapping_patterns[from].field)
    ELSE FirstMatch(from + 1, user_col_lower)

(* the suggestions dictionary: the columns that found a match, with their
   standard column *)
suggest_column_mapping(cols) ==
    LET found == {cols[i] : i \in {j \in DOMAIN cols :
                                      ~IsNA(FirstMatch(1, strip(lower(cols[j]))))}}
    IN [c \in found |-> Get(FirstMatch(1, strip(lower(c))))]

ColumnNames ==
    {<<"q", "t", "y">>,
     <<"Q", "T", "Y">>,
     <<" ", "q", "t", "y", " ">>,
     <<" ", "Q", "T", "Y", " ">>,
     <<"a", "m", "o", "u", "n", "t">>,
     <<"A", "M", "O", "U", "N", "T">>,
     <<" ", "a", "m", "o", "u", "n", "t", " ">>,
     <<" ", "A", "M", "O", "U", "N", "T", " ">>,
     <<"s", "k", "u", "_", "i", "d">>,
     <<"S", "K", "U", "_", "I", "D">>,
     <<" ", "s", "k", "u", "_", "i", "d", " ">>,
     <<" ", "S", "K", "U", "_", "I", "D", " ">>,
     <<"e">>,
     <<"E">>,
     <<" ", "e", " ">>,
     <<" ", "E", " ">>,
     <<"z", "z">>,
     <<"Z", "Z">>,
     <<" ", "z", "z", " ">>,
     <<" ", "Z", "Z", " ">>,
     <<"d", "a", "t", "e">>,
     <<"D", "A", "T", "E">>,
     <<" ", "d", "a", "t", "e", " ">>,
     <<" ", "D", "A", "T", "E", " ">>}

(* the standard names a mapping may give a column *)
MappedValues == {"CustomerID", "InvoiceDate", "InvoiceNo", "Quantity", "UnitPrice", "Country"}

(* columns of the CSV that no mapping entry renames and that already carry a
   standard name *)
CsvExtras == {{}, {"InvoiceNo"}, {"InvoiceNo", "Quantity", "UnitPrice"}}

(* preprocessing_v2.clean_and_process_data, line 66 *)
required_cols == {"CustomerID", "InvoiceNo", "Quantity", "UnitPrice", "InvoiceDate"}

(* lines 62-71: the columns after df.rename(columns=column_mappings) are the
   mapped names and the columns left as they were; ValueError when a required
   one is not among them *)
missing_cols(m, unmapped) == required_cols \ (Range(m) \cup unmapped)

ANALYSIS_MODES ==
    <<[mode |-> "full_rfm", required |-> {"CustomerID", "InvoiceDate", "Quantity", "UnitPrice"}],
      [mode |-> "frequency_recency", required |-> {"CustomerID", "InvoiceDate"}],
      [mode |-> "basic_segmentation", required |-> {"CustomerID"}]>>

CoreRequired == {"CustomerID", "InvoiceDate"}

(* mutant: the two-field mode is preferred to the full one *)
BestMode_rf_first(available) ==
    IF "frequency_recency" \in available THEN "frequency_recency"
    ELSE IF "full_rfm" \in available THEN "full_rfm"
    ELSE "basic_segmentation"

(* lines 190-196 *)
BestMode(available) ==
    IF "full_rfm" \in available THEN "full_rfm"
    ELSE IF "frequency_recency" \in available THEN "frequency_recency"
    ELSE "basic_segmentation"

(* mutant: a mapping without any mode is let through *)
validate_required_mappings_lenient(m) ==
    [is_valid |-> TRUE, analysis_mode |-> Some("basic_segmentation"), missing_columns |-> {}]

(* a mapping is the sequence of the standard names given to the user's columns *)
validate_required_mappings(m) ==
    LET mapped_standard_cols == Range(m)
        possible_modes ==
            [i \in DOMAIN ANALYSIS_MODES |->
                [mode |-> ANALYSIS_MODES[i].mode,
                 missing |-> ANALYSIS_MODES[i].required \ mapped_standard_cols]]
        available_modes ==
            {possible_modes[i].mode : i \in {j \in DOMAIN possible_modes :
                                                possible_modes[j].missing = {}}}
    IN IF available_modes # {}
       THEN [is_valid |-> TRUE, analysis_mode |-> Some(BestMode(available_modes)),
             missing_columns |-> {}]
       ELSE [is_valid |-> FALSE, analysis_mode |-> Missing,
             missing_columns |-> CoreRequired \ mapped_standard_cols]

InitMap ==
    /\ \/ /\ map_pc = "segment"
          /\ \E n \in 0..MaxCols : mappings \in [1..n -> MappedValues]
          /\ user_columns = <<>>
       \/ /\ map_pc = "analyze"
          /\ \E n \in 0..MaxUserCols : user_columns \in [1..n -> ColumnNames]
          /\ mappings = <<>>
    /\ validation = <<>>
    /\ response = <<>>
    /\ suggestions = <<>>
    /\ IdleRFM /\ IdleNamer /\ IdleSel /\ IdleEngine /\ IdleRace /\ IdleAnalytics /\ IdleTop /\ IdleDB
    /\ IdleFixed

(* main.segment_with_mapping, lines 258-324: an invalid mapping is answered
   with 400; a valid one goes on to the CSV, which may be rejected, and then
   to process_full_pipeline, whose cleaning stage raises when a required
   column is missing and which may fail later as well; every failure of the
   pipeline is answered with 500 *)
SegmentWithMapping ==
    /\ map_pc = "segment"
    /\ \E v \in {validate_required_mappings(mappings)}, unmapped \in CsvExtras :
        /\ validation' = v
        /\ response' \in
              IF ~v.is_valid
              THEN {[status |-> 400, pipeline_called |-> FALSE, missing_cols |-> {}]}
              ELSE {[status |-> 400, pipeline_called |-> FALSE, missing_cols |-> {}]}
                   \cup
                   IF missing_cols(mappings, unmapped) # {}
                   THEN {[status |-> 500, pipeline_called |-> TRUE,
                          missing_cols |-> missing_cols(mappings, unmapped)]}
                   ELSE {[status |-> 200, pipeline_called |-> TRUE, missing_cols |-> {}],
                         [status |-> 500, pipeline_called |-> TRUE, missing_cols |-> {}]}
    /\ map_pc' = "responded"
    /\ UNCHANGED <<mappings, user_columns, suggestions>>
    /\ UNCHANGED <<cleanVars, namerVars, selVars, engineVars, raceVars, analyticsVars, topVars, dbVars, fixedVars>>

(* main.analyze_columns, line 174 *)
AnalyzeColumns ==
    /\ map_pc = "analyze"
    /\ suggestions' = suggest_column_mapping(user_columns)
    /\ map_pc' = "suggested"
    /\ UNCHANGED <<mappings, validation, response, user_columns>>
    /\ UNCHANGED <<cleanVars, namerVars, selVars, engineVars, raceVars, analyticsVars, topVars, dbVars, fixedVars>>

NextMap == SegmentWithMapping \/ AnalyzeColumns

SpecMap == InitMap /\ [][NextMap]_vars

----------------------------------------------------------------------------
(* Analytics: preprocessing_v2.generate_analytics on the annotated frame    *)
(* scale_and_cluster built (line 541).  Cluster_Name is the name mapped to  *)
(* the row's Cluster; different clusters may carry the same name.           *)

MonetaryValues == {3, 6}

ClusterIds == 0..2

SegmentNames == {"Champions", "Lost Customers"}

(* mutant: the rows of one cluster only, the last with that name *)
SegmentRows_onecluster(frame, segment) ==
    LET ids == {frame[i].Cluster : i \in {j \in DOMAIN frame : frame[j].Cluster_Name = segment}}
    IN {i \in DOMAIN frame : frame[i].Cluster = SetMax(ids)}

(* rfm[rfm['Cluster_Name'] == segment], rfm.groupby('Cluster_Name') *)
SegmentRows(frame, segment) == {i \in DOMAIN frame : frame[i].Cluster_Name = segment}

generate_analytics(frame) ==
    LET segments == {frame[i].Cluster_Name : i \in DOMAIN frame} IN
    [n_customers |-> Len(frame),
     cluster_counts |-> [g \in segments |-> Cardinality(SegmentRows(frame, g))],
     revenue_by_segment |->
         [g \in segments |->
             SumOver(SegmentRows(frame, g), [i \in DOMAIN frame |-> frame[i].Monetary])],
     n_clusters |-> Cardinality({frame[i].Cluster : i \in DOMAIN frame})]

InitAnalytics ==
    /\ an_pc = "called"
    /\ \E n \in 1..MaxAnalysed :
        \E t \in [1..n -> MonetaryValues \X ClusterIds], naming \in [ClusterIds -> SegmentNames] :
            an_rfm = [i \in 1..n |-> [CustomerID |-> i, Monetary |-> t[i][1],
                                      Cluster |-> t[i][2], Cluster_Name |-> naming[t[i][2]]]]
    /\ analytics = <<>>
    /\ IdleRFM /\ IdleNamer /\ IdleSel /\ IdleEngine /\ IdleRace /\ IdleMapping /\ IdleTop /\ IdleDB
    /\ IdleFixed

GenerateAnalytics ==
    /\ an_pc = "called"
    /\ analytics' = generate_analytics(an_rfm)
    /\ an_pc' = "returned"
    /\ UNCHANGED an_rfm
    /\ UNCHANGED <<cleanVars, namerVars, selVars, engineVars, raceVars, mapVars, topVars, dbVars, fixedVars>>

NextAnalytics == GenerateAnalytics

SpecAnalytics == InitAnalytics /\ [][NextAnalytics]_vars

----------------------------------------------------------------------------
(* Product analysis: preprocessing_v2.get_top_products_by_segment on the    *)
(* cleaned transactions (TotalPrice added by calculate_rfm_features) and    *)
(* the annotated frame, as process_full_pipeline calls it (line 709).       *)

DefaultTopN == 5

TopNs == {1, DefaultTopN}

Products == {"mug", "pen"}

(* Quantity and TotalPrice of a row: the larger quantity is the cheaper row *)
TxAmounts == {<<1, 6>>, <<2, 3>>}

TxRows ==
    {[CustomerID |-> c, Description |-> d, Quantity |-> a[1], TotalPrice |-> a[2]] :
        c \in CustomerIDs, d \in {Missing} \cup {Some(x) : x \in Products}, a \in TxAmounts}

(* df without its Description column *)
DropDescription(df) ==
    [i \in DOMAIN df |->
        [CustomerID |-> df[i].CustomerID, Quantity |-> df[i].Quantity,
         TotalPrice |-> df[i].TotalPrice]]

(* 'Description' in df.columns *)
HasDescription(df) == \A i \in DOMAIN df : "Description" \in DOMAIN df[i]

(* mutant: the rows of every customer *)
SegmentData_all(df, frame, segment) == {i \in DOMAIN df : ~IsNA(df[i].Description)}

(* lines 637-642: the rows of the merge that belong to the segment;
   groupby('Description') leaves out the rows without a description *)
SegmentData(df, frame, segment) ==
    {i \in DOMAIN df :
        /\ ~IsNA(df[i].Description)
        /\ \E r \in DOMAIN frame :
              frame[r].CustomerID = df[i].CustomerID /\ frame[r].Cluster_Name = segment}

(* lines 645-648: totals per product of the segment *)
ProductSummary(df, frame, segment) ==
    LET rows == SegmentData(df, frame, segment) IN
    [d \in {Get(df[i].Description) : i \in rows} |->
        LET of_d == {i \in rows : Get(df[i].Description) = d} IN
        [product |-> d,
         total_quantity |-> SumOver(of_d, [i \in DOMAIN df |-> df[i].Quantity]),
         total_revenue |-> SumOver(of_d, [i \in DOMAIN df |-> df[i].TotalPrice])]]

(* sort_values('Quantity', ascending=False).head(top_n): the sort is not
   stable, so products with equal quantities come in any order *)
TopLists(summary, top_n) ==
    LET n == Min2(top_n, Cardinality(DOMAIN summary)) IN
    {[i \in 1..n |-> summary[order[i]]] :
        order \in {o \in [1..n -> DOMAIN summary] :
                      /\ \A i, j \in 1..n : i # j => o[i] # o[j]
                      /\ \A i \in 1..(n - 1) :
                            summary[o[i]].total_quantity >= summary[o[i + 1]].total_quantity
                      /\ \A d \in DOMAIN summary :
                            (\A i \in 1..n : o[i] # d) =>
                                summary[d].total_quantity <= summary[o[n]].total_quantity}}

(* the dictionaries the call may return *)
get_top_products_by_segment(df, frame, top_n) ==
    IF ~HasDescription(df) THEN {<<>>}
    ELSE LET segments == {frame[r].Cluster_Name : r \in DOMAIN frame}
             lists == UNION {TopLists(ProductSummary(df, frame, g), top_n) : g \in segments}
         IN {t \in [segments -> lists] :
                \A g \in segments : t[g] \in TopLists(ProductSummary(df, frame, g), top_n)}

InitTop ==
    /\ top_pc = "called"
    /\ \E n \in 1..MaxTxRows :
        \E df \in [1..n -> TxRows], naming \in [CustomerIDs -> SegmentNames],
           described \in BOOLEAN, top_n \in TopNs :
            top_args =
                [df |-> IF described THEN df ELSE DropDescription(df),
                 rfm |-> LET ids == SortedKeys({df[i].CustomerID : i \in 1..n}) IN
                         [r \in DOMAIN ids |->
                             [CustomerID |-> ids[r], Cluster_Name |-> naming[ids[r]]]],
                 top_n |-> top_n]
    /\ top_products = <<>>
    /\ IdleRFM /\ IdleNamer /\ IdleSel /\ IdleEngine /\ IdleRace /\ IdleMapping
    /\ IdleAnalytics /\ IdleDB
    /\ IdleFixed

GetTopProductsBySegment ==
    /\ top_pc = "called"
    /\ top_products' \in get_top_products_by_segment(top_args.df, top_args.rfm, top_args.top_n)
    /\ top_pc' = "returned"
    /\ UNCHANGED top_args
    /\ UNCHANGED <<cleanVars, namerVars, selVars, engineVars, raceVars, mapVars, analyticsVars, dbVars, fixedVars>>

NextTop == GetTopProductsBySegment

SpecTop == InitTop /\ [][NextTop]_vars

----------------------------------------------------------------------------
(* Business records: main.segment_with_mapping saving the model info in a   *)
(* background task, main.delete_business_model and                          *)
(* database.BusinessModelDB.delete_business_model, next to the model files  *)
(* that scale_and_cluster keeps under models/<business>.                    *)

NoResponse == [op |-> "none", business |-> "", status |-> 0, existed |-> FALSE,
               after_delete |-> FALSE]

InitDB ==
    /\ store = [b \in Businesses |-> [scaler |-> AbsentFile, kmeans |-> AbsentFile]]
    /\ call = NoCall
    /\ streak = NoStreak
    /\ records = {}
    /\ pending = {}
    /\ del_resp = NoResponse
    /\ IdleRFM /\ IdleNamer /\ IdleSel /\ IdleRace /\ IdleMapping /\ IdleAnalytics /\ IdleTop
    /\ IdleFixed

(* main.py lines 310-345: the pipeline runs; on success the save of the model
   info is queued as a background task *)
SegmentRequest ==
    /\ call = NoCall
    /\ \E b \in Businesses, frame \in RfmFrames, retrain \in BOOLEAN :
        \E k \in SelectedK(frame) :
            \E g \in FitAnswers(frame, store[b], retrain, k) :
                \E res \in {scale_and_cluster(frame, store[b], retrain, k, g)} :
                    /\ store' = [store EXCEPT ![b] = res.files]
                    /\ call' = [business |-> b, rfm |-> frame, retrain |-> retrain,
                                status |-> res.status, path |-> res.path,
                                loaded |-> res.loaded, load_failed |-> res.load_failed,
                                fitted |-> res.fitted, saved |-> res.saved,
                                fallbacks |-> res.fallbacks, out |-> res.out]
                    /\ pending' = IF res.status = "ok" THEN pending \cup {b} ELSE pending
                    /\ del_resp' =
                           [op |-> "segment", business |-> b,
                            status |-> IF res.status = "ok" THEN 200 ELSE 500,
                            existed |-> b \in records,
                            after_delete |-> /\ del_resp.op = "delete"
                                             /\ del_resp.status = 200
                                             /\ del_resp.business = b]
    /\ UNCHANGED <<streak, records>>
    /\ UNCHANGED <<cleanVars, namerVars, selVars, raceVars, mapVars, analyticsVars, topVars, fixedVars>>

(* main.py lines 326-345, database.py lines 103-152: INSERT OR REPLACE *)
SaveModelInfo ==
    /\ \E b \in pending :
        /\ pending' = pending \ {b}
        /\ records' = records \cup {b}
    /\ del_resp' = NoResponse
    /\ UNCHANGED <<engineVars, cleanVars, namerVars, selVars, raceVars, mapVars, analyticsVars,
                   topVars, fixedVars>>

(* mutant: the record stays *)
delete_business_model_keep(table, business_name) ==
    [table |-> table, success |-> business_name \in table]

(* database.py lines 246-280: DELETE FROM business_models WHERE business_name = ?;
   True when a row was deleted *)
delete_business_model(table, business_name) ==
    [table |-> table \ {business_name}, success |-> business_name \in table]

(* main.py lines 457-493: only the record is deleted (line 477: the model files
   stay on disk) *)
DeleteBusinessModel ==
    /\ call = NoCall
    /\ \E b \in Businesses :
        \E res \in {delete_business_model(records, b)} :
            /\ records' = res.table
            /\ del_resp' = [op |-> "delete", business |-> b,
                            status |-> IF res.success THEN 200 ELSE 404,
                            existed |-> b \in records, after_delete |-> FALSE]
    /\ UNCHANGED <<pending, engineVars, cleanVars, namerVars, selVars, raceVars, mapVars,
                   analyticsVars, topVars, fixedVars>>

NextDB == SegmentRequest \/ Deliver \/ SaveModelInfo \/ DeleteBusinessModel

SpecDB == InitDB /\ [][NextDB]_vars

----------------------------------------------------------------------------
(* The multi-method selector: find_optimal_clusters_fixed.find_optimal_clusters. *)
(* The fits are the environment: wcss[k] is the inertia of the fit with k     *)
(* clusters, silhouette[k] the silhouette score in tenths; all fits succeed.  *)

Methods == {"elbow", "silhouette", "combined"}

SilhouetteTenths == {2, 6}

GoodSilhouetteTenths == 5

ElbowDefault == 4

ErrorDefault == 4

np_diff(v) == [i \in 1..(Len(v) - 1) |-> v[i + 1] - v[i]]

(* np.argmax: the zero-based position of the first maximum; ValueError on an
   empty sequence *)
np_argmax(v) ==
    IF Len(v) = 0 THEN Missing
    ELSE Some(SetMin({i \in DOMAIN v : \A j \in DOMAIN v : v[j] <= v[i]}) - 1)

(* lines 100-126 *)
find_elbow_point(wcss_values) ==
    LET second_differences == np_diff(np_diff(wcss_values)) IN
    IF IsNA(np_argmax(second_differences)) THEN ElbowDefault
    ELSE Get(np_argmax(second_differences)) + 2

FixedError(method) == [optimal_clusters |-> ErrorDefault, method_used |-> method, error |-> TRUE]

(* lines 179-199: the clamp, then the results dictionary; its analysis_summary
   reads silhouette_clusters, a local that only the combined branch assigns *)
FixedResults(method, optimal, max_clusters, silhouette_scores) ==
    IF Len(silhouette_scores) > 0 /\ method # "combined"
    THEN FixedError(method)
    ELSE IF Len(silhouette_scores) = 0
    THEN FixedError(method)
    ELSE [optimal_clusters |-> Max2(2, Min2(optimal, max_clusters)),
          method_used |-> method, error |-> FALSE]

(* lines 128-211, from the two score lists on *)
FixedSelect(method, max_clusters, wcss_values, silhouette_scores) ==
    IF method = "elbow"
    THEN FixedResults(method, find_elbow_point(wcss_values), max_clusters, silhouette_scores)
    ELSE IF IsNA(np_argmax(silhouette_scores))
    THEN FixedError(method)
    ELSE LET silhouette_clusters == Get(np_argmax(silhouette_scores)) + 2
             elbow_clusters == find_elbow_point(wcss_values)
             best_score == SetMax(Range(silhouette_scores))
         IN IF method = "silhouette"
            THEN FixedResults(method, silhouette_clusters, max_clusters, silhouette_scores)
            ELSE FixedResults(method,
                     IF Abs(elbow_clusters - silhouette_clusters) <= 1 THEN elbow_clusters
                     ELSE IF best_score > GoodSilhouetteTenths THEN silhouette_clusters
                     ELSE elbow_clusters,
                     max_clusters, silhouette_scores)

InitFixed ==
    /\ fx_pc = "called"
    /\ \E method \in Methods, max_clusters \in 1..MaxFixedK :
        \E wcss \in [1..max_clusters -> InertiaValues],
           sil \in [1..(max_clusters - 1) -> SilhouetteTenths] :
            fx_args = [method |-> method, max_clusters |-> max_clusters,
                       wcss_values |-> wcss, silhouette_scores |-> sil]
    /\ fx_out = <<>>
    /\ IdleRFM /\ IdleNamer /\ IdleSel /\ IdleEngine /\ IdleRace /\ IdleMapping
    /\ IdleAnalytics /\ IdleTop /\ IdleDB

FindOptimalClustersFixed ==
    /\ fx_pc = "called"
    /\ fx_out' = FixedSelect(fx_args.method, fx_args.max_clusters, fx_args.wcss_values,
                             fx_args.silhouette_scores)
    /\ fx_pc' = "returned"
    /\ UNCHANGED fx_args
    /\ UNCHANGED <<cleanVars, namerVars, selVars, engineVars, raceVars, mapVars, analyticsVars,
                   topVars, dbVars>>

NextFixed == FindOptimalClustersFixed

SpecFixed == InitFixed /\ [][NextFixed]_vars

----------------------------------------------------------------------------
(* Properties of the cleaner and of the RFM builder *)

Cleaned == stage \in {"cleaned_v2", "cleaned_legacy", "rfm_v2", "rfm_legacy"}

RfmBuilt == stage \in {"rfm_v2", "rfm_legacy"}

(* the rows of the cleaned dataset that belong to customer c *)
CleanedRowsOf(c) == {i \in DOMAIN df_clean : df_clean[i].CustomerID = Some(c)}

(* C1: whenever the cleaner (clean_and_process_data or clean_raw) returns, every
   returned row has Quantity > 0, UnitPrice > 0, a present CustomerID and an
   InvoiceNo that does not start with the cancellation sentinel "C". *)
C1_CleanedRowsValid ==
    Cleaned =>
        \A i \in DOMAIN df_clean :
            /\ df_clean[i].Quantity > 0
            /\ df_clean[i].UnitPrice > 0
            /\ ~IsNA(df_clean[i].CustomerID)
            /\ ~startswith(df_clean[i].InvoiceNo, "C")

(* the cleaner returned a row and had removed an otherwise valid cancelled one *)
C1_Witness ==
    /\ stage = "cleaned_v2"
    /\ Len(df_clean) > 0
    /\ \E i \in DOMAIN raw :
        /\ startswith(strip(raw[i].InvoiceNo), "C") /\ ~IsNA(raw[i].CustomerID)
        /\ raw[i].Quantity > 0 /\ raw[i].UnitPrice > 0

(* a row one of the cleaner's filters rejects *)
Defective(r) ==
    \/ IsNA(r.CustomerID)
    \/ r.Quantity <= 0
    \/ r.UnitPrice <= 0
    \/ startswith(strip(r.InvoiceNo), "C")

Trimmed(r) == [r EXCEPT !.InvoiceNo = strip(@)]

NoDuplicateRows(df) == \A i, j \in DOMAIN df : i # j => df[i] # df[j]

(* C12 as stated: the rows removed are the defective rows and the later copies
   of exact duplicates among the input rows, and no others *)
C12_RemovedAreListedRows ==
    stage = "cleaned_v2" =>
        /\ Len(raw) - Len(df_clean) =
                Cardinality({i \in DOMAIN raw :
                    Defective(raw[i]) \/ \E j \in 1..(i - 1) : raw[j] = raw[i]})
        /\ NoDuplicateRows(df_clean)

(* the input rows the cleaner removes: the defective ones and those that, once
   the invoice id is trimmed, repeat an earlier row *)
RemovedRows ==
    {i \in DOMAIN raw :
        Defective(raw[i]) \/ \E j \in 1..(i - 1) : Trimmed(raw[j]) = Trimmed(raw[i])}

(* C12: the cleaner removes exactly the defective rows and the rows that equal
   an earlier row after invoice ids are trimmed; every other row is returned
   (trimmed), and the returned rows are pairwise different *)
C12_RemovedAreDefectiveOrRepeats ==
    stage = "cleaned_v2" =>
        /\ Len(raw) - Len(df_clean) = Cardinality(RemovedRows)
        /\ \A i \in DOMAIN raw \ RemovedRows : \E j \in DOMAIN df_clean : df_clean[j] = Trimmed(raw[i])
        /\ NoDuplicateRows(df_clean)

(* two sound rows that differ only in whitespace around the invoice id: one
   is returned *)
C12_Witness ==
    /\ stage = "cleaned_v2"
    /\ Len(raw) = 2 /\ Len(df_clean) = 1
    /\ ~Defective(raw[1]) /\ ~Defective(raw[2])
    /\ raw[1] # raw[2]

(* C13: the cleaner returns only non-empty datasets; it fails with ValueError
   exactly when every input row is rejected, whether the dataset empties at
   the customer id stage or at a later filter *)
C13_NeverReturnsEmpty ==
    /\ stage = "cleaned_v2" => Len(df_clean) > 0
    /\ stage \in {"cleaned_v2", "clean_error"} =>
            (stage = "clean_error" <=> \A i \in DOMAIN raw : Defective(raw[i]))

(* the failure came from a later filter: a row with a customer id was there *)
C13_Witness ==
    /\ stage = "clean_error"
    /\ \E i \in DOMAIN raw : ~IsNA(raw[i].CustomerID)

(* the cleaner has returned and the RFM builder has not run yet *)
CleanerReturned == stage \in {"cleaned_v2", "cleaned_legacy"}

(* C22: every row of the dataset the cleaner returns carries a total price
   column equal to Quantity x UnitPrice of the row *)
C22_CleanedRowsCarryTotalPrice ==
    CleanerReturned =>
        \A i \in DOMAIN df_clean :
            /\ "TotalPrice" \in DOMAIN df_clean[i]
            /\ df_clean[i].TotalPrice = df_clean[i].Quantity * df_clean[i].UnitPrice

(* the snapshot date of the claim: the latest date of the whole cleaned dataset
   plus one day *)
GlobalSnapshot ==
    SetMax({Get(df_clean[i].InvoiceDate) : i \in DOMAIN df_clean}) + UnitsPerDay

LatestOf(c) == SetMax({Get(df_clean[i].InvoiceDate) : i \in CleanedRowsOf(c)})

(* C2: for every customer of the RFM output, Recency is a number >= 0 and equals
   the whole days between the customer's latest transaction date and the single
   global snapshot date max(InvoiceDate) + 1 day. *)
C2_RecencyFromGlobalSnapshot ==
    RfmBuilt =>
        \A i \in DOMAIN rfm :
            /\ ~IsNA(rfm[i].Recency)
            /\ Get(rfm[i].Recency) >= 0
            /\ \A k \in CleanedRowsOf(rfm[i].CustomerID) : ~IsNA(df_clean[k].InvoiceDate)
            /\ Get(rfm[i].Recency) * UnitsPerDay <= GlobalSnapshot - LatestOf(rfm[i].CustomerID)
            /\ GlobalSnapshot - LatestOf(rfm[i].CustomerID)
                   < (Get(rfm[i].Recency) + 1) * UnitsPerDay

(* C23: every record of the RFM builder carries the average order value
   Monetary / Frequency (0 when Frequency is 0) and the lifespan, the whole
   days between the customer's first and last purchase; with a single invoice
   the lifespan is 0 and the average order value equals Monetary *)
C23_RecordsCarryAovAndLifespan ==
    RfmBuilt =>
        \A i \in DOMAIN rfm :
            /\ {"AOV", "CustomerLifespan"} \subseteq DOMAIN rfm[i]
            /\ rfm[i].AOV.num * rfm[i].Frequency = rfm[i].Monetary * rfm[i].AOV.den
            /\ rfm[i].CustomerLifespan =
                   (LatestOf(rfm[i].CustomerID)
                      - SetMin({Get(df_clean[j].InvoiceDate) :
                                   j \in CleanedRowsOf(rfm[i].CustomerID)})) \div UnitsPerDay
            /\ rfm[i].Frequency = 1 =>
                   /\ rfm[i].CustomerLifespan = 0
                   /\ rfm[i].AOV.num = rfm[i].Monetary * rfm[i].AOV.den

(* C3: Frequency is the number of distinct invoice ids among the customer's
   cleaned rows, not the number of rows. *)
C3_FrequencyDistinctInvoices ==
    RfmBuilt =>
        \A i \in DOMAIN rfm :
            rfm[i].Frequency =
                Cardinality({df_clean[k].InvoiceNo : k \in CleanedRowsOf(rfm[i].CustomerID)})

(* a customer with two cleaned rows that share one invoice id has Frequency 1 *)
C3_Witness ==
    /\ RfmBuilt
    /\ \E i \in DOMAIN rfm :
        /\ Cardinality(CleanedRowsOf(rfm[i].CustomerID)) = 2
        /\ rfm[i].Frequency = 1

(* C4: Monetary is the sum of Quantity x UnitPrice over exactly the customer's
   rows of the cleaned dataset. *)
C4_MonetaryExactSum ==
    RfmBuilt =>
        \A i \in DOMAIN rfm :
            rfm[i].Monetary =
                SumOver(CleanedRowsOf(rfm[i].CustomerID),
                        [k \in DOMAIN df_clean |->
                            df_clean[k].Quantity * df_clean[k].UnitPrice])

(* a customer was aggregated over two cleaned rows of different quantities *)
C4_Witness ==
    /\ RfmBuilt
    /\ \E i \in DOMAIN rfm :
        /\ Cardinality(CleanedRowsOf(rfm[i].CustomerID)) = 2
        /\ rfm[i].Monetary = 1 * 3 + 2 * 3

----------------------------------------------------------------------------
(* Properties of the segment namer *)

(* the fixed taxonomy, keyed by (recent, frequent, high-value) *)
TaxonomyTable ==
    [t \in BOOLEAN \X BOOLEAN \X BOOLEAN |->
        CASE t = <<TRUE, TRUE, TRUE>> -> "Champions"
          [] t = <<TRUE, TRUE, FALSE>> -> "Loyal Customers"
          [] t = <<TRUE, FALSE, TRUE>> -> "Big Spenders"
          [] t = <<TRUE, FALSE, FALSE>> -> "New Customers"
          [] t = <<FALSE, TRUE, TRUE>> -> "At-Risk VIPs"
          [] t = <<FALSE, TRUE, FALSE>> -> "Cannot Lose Them"
          [] t = <<FALSE, FALSE, TRUE>> -> "Hibernating VIPs"
          [] t = <<FALSE, FALSE, FALSE>> -> "Lost Customers"]

SignTriple(row) == <<row.Recency < 0, row.Frequency > 0, row.Monetary > 0>>

(* C5: every cluster is named from its sign triple (mean recency < 0, mean
   frequency > 0, mean monetary > 0; a mean of exactly 0 is on the negative
   side) by the fixed 8-entry table, so clusters with equal sign triples get
   equal names. *)
C5_NameFromSignTriple ==
    namer_pc = "named" =>
        /\ DOMAIN cluster_names = {cluster_means[i].Cluster : i \in DOMAIN cluster_means}
        /\ \A i \in DOMAIN cluster_means :
            cluster_names[cluster_means[i].Cluster] =
                TaxonomyTable[SignTriple(cluster_means[i])]
        /\ \A i, j \in DOMAIN cluster_means :
            SignTriple(cluster_means[i]) = SignTriple(cluster_means[j]) =>
                cluster_names[cluster_means[i].Cluster] =
                    cluster_names[cluster_means[j].Cluster]

(* two clusters with different means but one sign triple, one of them with a
   mean recency of exactly 0, were both named At-Risk VIPs *)
C5_Witness ==
    /\ namer_pc = "named"
    /\ \E i, j \in DOMAIN cluster_means :
        /\ cluster_means[i].Recency = 0 /\ cluster_means[j].Recency > 0
        /\ cluster_means[i].Frequency > 0 /\ cluster_means[i].Monetary > 0
        /\ cluster_names[cluster_means[i].Cluster] = "At-Risk VIPs"
        /\ cluster_names[cluster_means[j].Cluster] = "At-Risk VIPs"

----------------------------------------------------------------------------
(* Properties of the cluster count selector *)

SelReturned == sel_pc = "done" /\ sel_out.kind = "return"

(* C6: for every input array and min_clusters <= max_clusters the returned k
   satisfies min_clusters <= k <= max_clusters on every return path (early
   return, elbow choice, exception fallback). *)
C6_ReturnedKInRange ==
    SelReturned =>
        /\ sel_args.min_clusters <= sel_out.k
        /\ sel_out.k <= sel_args.max_clusters

(* C27: the candidate range is capped to the dataset size minus one: for an
   array of n rows the returned k is at most n - 1, also for one or two rows *)
C27_ReturnedKBelowDataSize ==
    SelReturned => sel_out.k <= Get(sel_args.data.len) - 1

(* 4 clamped to the range of k that is valid for the call *)
ClampedFallback(a) ==
    Max2(a.min_clusters, Min2(FallbackK, Min2(a.max_clusters, Get(a.data.len) - 1)))

(* C7: whenever an error occurs inside find_optimal_clusters, also before the
   candidate range is computed, the call returns 4 clamped to the valid range
   of k and no exception leaves the function. *)
C7_ErrorsFallBackToClamped4 ==
    (sel_pc = "done" /\ sel_out.handled) =>
        /\ sel_out.kind = "return"
        /\ sel_out.k = ClampedFallback(sel_args)

(* the candidate k values of the call and the inertia each one got *)
Candidates == cluster_range(sel_args)

ObservedInertias ==
    [i \in 1..Cardinality(Candidates) |-> sel_obs.inertia_of[sel_args.min_clusters + i - 1]]

DistanceOf(k) == KneeDistance(ObservedInertias, k - sel_args.min_clusters + 1)

MaxKneeDistance == SetMax({DistanceOf(k) : k \in Candidates})

(* the k of maximum knee distance (the smallest one when several have it),
   unless 4 is a candidate with a distance of at least 85% of the maximum *)
BiasedKnee ==
    IF 4 \in Candidates /\ 100 * DistanceOf(4) >= 85 * MaxKneeDistance
    THEN 4
    ELSE SetMin({k \in Candidates : DistanceOf(k) = MaxKneeDistance})

ElbowCase ==
    /\ sel_pc \in {"done", "repeated"}
    /\ ~IsNA(sel_args.data.len) /\ sel_args.data.finite
    /\ Cardinality(Candidates) >= 3

(* C17 as stated: with at least three candidate k values the result is the k
   of maximum knee distance, or 4 when 4 is a candidate within 85% of it *)
C17_ResultIsBiasedKnee ==
    ElbowCase => (sel_out.kind = "return" /\ sel_out.k = BiasedKnee)

(* C17: with at least three candidate k values the call returns the k of
   maximum knee distance, or 4 when 4 is a candidate within 85% of it, unless
   the elbow analysis raises: an inertia of zero before the last candidate
   makes the rate-of-change loop divide by zero when inertias are Python
   floats, and the call then returns min(4, largest candidate) *)
C17_BiasedKneeUnlessAnalysisRaises ==
    ElbowCase =>
        /\ sel_out.kind = "return"
        /\ sel_out.handled <=>
              /\ sel_obs.py_float
              /\ \E k \in Candidates : k + 1 \in Candidates /\ sel_obs.inertia_of[k] = 0
        /\ ~sel_out.handled => sel_out.k = BiasedKnee
        /\ sel_out.handled => sel_out.k = Min2(4, SetMax(Candidates))

(* the bias decides: 4 is returned although another k has the largest distance *)
C17_Witness ==
    /\ ElbowCase /\ ~sel_out.handled
    /\ sel_out.k = 4
    /\ DistanceOf(4) < MaxKneeDistance
    /\ MaxKneeDistance > 0

(* C18: the same call made twice, same array and same bounds, ends the same
   way both times: the same k *)
C18_SameCallSameK ==
    sel_pc = "repeated" => sel_again = sel_out

(* both calls went through the elbow analysis *)
C18_Witness ==
    /\ sel_pc = "repeated" /\ ElbowCase
    /\ ~sel_out.handled /\ sel_again.kind = "return"
    /\ sel_out.k > sel_args.min_clusters

----------------------------------------------------------------------------
(* Properties of the segmentation engine *)

Returned == call.status # "none"

(* C8: a retrain=false call whose scaler and partitioner both exist and load
   only transforms and predicts: it fits no new model and saves nothing, so
   the persisted artifacts stay as they were *)
C8_LoadedCallOnlyInfers ==
    (Returned /\ ~call.retrain /\ call.loaded) => (~call.fitted /\ ~call.saved)

(* a fit, a prediction or a silhouette computation raised during the call:
   after both artifacts had loaded, or on the training path *)
CoreErrorRaised == (call.loaded /\ call.path = "fallback") \/ call.status = "error"

(* C19: an error raised by fitting, predicting or the silhouette computation
   inside scale_and_cluster is not answered with a result: the call fails and
   the error reaches the caller *)
C19_CoreErrorsReachCaller ==
    (Returned /\ CoreErrorRaised) => call.status = "error"

(* C9: after a successful retrain=true run, every retrain=false run for the
   same business on the identical frame succeeds and gives every customer the
   cluster id and the segment name the first such run gave *)
C9_InferenceRunsAgree ==
    (Returned /\ ~call.retrain /\ streak.active
        /\ streak.business = call.business /\ streak.rfm = call.rfm)
    => (call.status = "ok" /\ call.out = streak.out)

C9_Witness ==
    /\ Returned /\ ~call.retrain /\ call.status = "ok"
    /\ streak.active /\ streak.runs >= 2 /\ streak.rfm = call.rfm
    /\ Len(call.out) >= 3
    /\ \E i, j \in DOMAIN call.out : call.out[i].Cluster # call.out[j].Cluster

(* C10 as stated: a call whose load fails does not fail; it falls back to the
   retrain path at most once, returns the fresh fit and overwrites the
   artifacts *)
C10_LoadFailureAlwaysRecovers ==
    (Returned /\ call.load_failed)
    => (call.status = "ok" /\ call.path = "fallback" /\ call.fallbacks <= 1
        /\ call.fitted /\ call.saved)

FreshArtifacts(files, frame, out) ==
    /\ files.scaler = SavedFile(scaler_fit(log_features(frame)))
    /\ files.kmeans.kind = "ok"
    /\ kmeans_predict(Get(files.kmeans.obj), frame) = [i \in DOMAIN out |-> out[i].Cluster]

(* C10: a call whose load fails enters the retrain path exactly once and ends
   as that path ends: when the fresh fit and its metrics succeed the call
   returns the fresh result and the artifacts are overwritten with the fresh
   scaler and partitioner; when they raise the call fails, nothing is saved
   and the unreadable file is still in place *)
C10_LoadFailureRetrainsOnce ==
    (Returned /\ call.load_failed)
    => /\ ~call.retrain /\ call.path = "fallback" /\ call.fallbacks = 1 /\ call.fitted
       /\ call.status \in {"ok", "error"}
       /\ call.status = "ok" =>
            (call.saved /\ FreshArtifacts(store[call.business], call.rfm, call.out))
       /\ call.status = "error" =>
            /\ ~call.saved
            /\ \/ load_raises(store[call.business].scaler)
               \/ load_raises(store[call.business].kmeans)

C10_Witness ==
    /\ Returned /\ call.load_failed /\ call.status = "ok"
    /\ call.saved /\ Len(call.out) >= 3

(* C29: a run that fails, in the cleaning or RFM stage or on the training path
   (selection, fit or silhouette raising), leaves the persisted files of every
   business exactly as they were before the run *)
C29_FailedRunLeavesArtifacts ==
    [][(call = NoCall /\ call'.status = "error") => store' = store]_vars

(* a training run failed while files of an earlier run were in place *)
C29_Witness ==
    /\ Returned /\ call.status = "error" /\ call.fitted /\ call.retrain
    /\ store[call.business].scaler.kind = "ok"
    /\ store[call.business].kmeans.kind = "ok"

TaxonomyNames == Range(TaxonomyTable)

(* the partitioner the successful call used: the loaded one, or the one it
   fitted and saved *)
ModelUsed == Get(store[call.business].kmeans.obj)

(* C21: the table of a successful run has exactly one row for every customer of
   the RFM frame, and that row carries a cluster id in 0..k-1 of the model
   used and a name of the 8-name taxonomy, on the training path and on the
   load-and-predict path *)
C21_OneNamedRowPerCustomer ==
    (Returned /\ call.status = "ok") =>
        /\ \A r \in DOMAIN call.rfm :
               Cardinality({i \in DOMAIN call.out :
                               call.out[i].CustomerID = call.rfm[r].CustomerID}) = 1
        /\ Len(call.out) = Len(call.rfm)
        /\ \A i \in DOMAIN call.out :
               /\ call.out[i].Cluster \in 0..(ModelUsed.n_clusters - 1)
               /\ call.out[i].Cluster_Name \in TaxonomyNames

(* a load-and-predict run that put its customers in two clusters *)
C21_Witness ==
    /\ Returned /\ call.status = "ok" /\ call.path = "load"
    /\ Len(call.out) = MaxCustomers
    /\ \E i, j \in DOMAIN call.out : call.out[i].Cluster # call.out[j].Cluster

----------------------------------------------------------------------------
(* Properties of the column mapping *)

Validated == map_pc = "responded"

MappedFields == Range(mappings)

FullRfmFields == {"CustomerID", "InvoiceDate", "Quantity", "UnitPrice"}

(* C14: the mode returned is full_rfm iff CustomerID, InvoiceDate, Quantity and
   UnitPrice are all mapped; otherwise frequency_recency iff CustomerID and
   InvoiceDate are; otherwise basic_segmentation iff CustomerID is *)
C14_RichestModeSelected ==
    Validated =>
        /\ validation.analysis_mode = Some("full_rfm") <=> FullRfmFields \subseteq MappedFields
        /\ validation.analysis_mode = Some("frequency_recency") <=>
              /\ ~(FullRfmFields \subseteq MappedFields)
              /\ {"CustomerID", "InvoiceDate"} \subseteq MappedFields
        /\ validation.analysis_mode = Some("basic_segmentation") <=>
              /\ "InvoiceDate" \notin MappedFields
              /\ "CustomerID" \in MappedFields

(* a mapping with a quantity but no price: the two-field mode *)
C14_Witness ==
    /\ Validated
    /\ validation.analysis_mode = Some("frequency_recency")
    /\ "Quantity" \in MappedFields

(* C15: validation fails, with no mode, exactly when CustomerID is not among the
   mapped fields; missing_columns then lists the unmapped core fields,
   CustomerID among them, and the endpoint answers 400 without calling the
   pipeline *)
C15_InvalidIffNoCustomerID ==
    Validated =>
        /\ ~validation.is_valid <=> "CustomerID" \notin MappedFields
        /\ ~validation.is_valid =>
              /\ IsNA(validation.analysis_mode)
              /\ "CustomerID" \in validation.missing_columns
              /\ validation.missing_columns = {"CustomerID", "InvoiceDate"} \ MappedFields
              /\ response.status = 400
              /\ ~response.pipeline_called

(* a mapping that names columns, the date among them, but no customer id *)
C15_Witness ==
    /\ Validated
    /\ ~validation.is_valid
    /\ "InvoiceDate" \in MappedFields
    /\ validation.missing_columns = {"CustomerID"}

(* C26: a mapping that validation accepts, in any of the three modes, passes
   the required-column check of the cleaning stage: the pipeline is not
   stopped for missing columns *)
C26_AcceptedMappingPassesCleanerCheck ==
    (Validated /\ validation.is_valid /\ response.pipeline_called) =>
        response.missing_cols = {}

Suggested == map_pc = "suggested"

(* a name without its surrounding blanks, letters in lower case *)
Canon(name) ==
    LET inner == {i \in DOMAIN name : name[i] # " "}
        fold(c) == IF \E k \in 1..26 : UpperCase[k] = c
                   THEN LowerCase[CHOOSE k \in 1..26 : UpperCase[k] = c] ELSE c
    IN IF inner = {} THEN <<>>
       ELSE [i \in 1..(SetMax(inner) - SetMin(inner) + 1) |-> fold(name[SetMin(inner) + i - 1])]

FieldOrder ==
    <<"InvoiceNo", "CustomerID", "Quantity", "UnitPrice", "InvoiceDate", "StockCode",
      "Description", "Country">>

(* the positions in FieldOrder of the fields with a pattern that contains the
   name or is contained in it *)
Hits(name) ==
    {k \in DOMAIN FieldOrder :
        \E f \in DOMAIN mapping_patterns :
            /\ mapping_patterns[f].field = FieldOrder[k]
            /\ \E p \in Range(mapping_patterns[f].patterns) :
                  Contains(p, name) \/ Contains(name, p)}

(* C16: every column gets at most one field, the first in the fixed order with
   a pattern that contains the trimmed lower-case name or is contained in it;
   a column without such a pattern is absent; names that differ only in case
   or surrounding blanks get the same field *)
C16_FirstFieldInOrder ==
    Suggested =>
        \A i \in DOMAIN user_columns :
            LET c == user_columns[i] IN
            /\ c \in DOMAIN suggestions <=> Hits(Canon(c)) # {}
            /\ c \in DOMAIN suggestions =>
                  suggestions[c] = FieldOrder[SetMin(Hits(Canon(c)))]
            /\ \A j \in DOMAIN user_columns :
                  Canon(user_columns[j]) = Canon(c) =>
                      /\ user_columns[j] \in DOMAIN suggestions <=> c \in DOMAIN suggestions
                      /\ c \in DOMAIN suggestions => suggestions[user_columns[j]] = suggestions[c]

(* two spellings of one name that two fields have a pattern for *)
C16_Witness ==
    /\ Suggested
    /\ Len(user_columns) = 2
    /\ user_columns[1] # user_columns[2]
    /\ Canon(user_columns[1]) = Canon(user_columns[2])
    /\ Cardinality(Hits(Canon(user_columns[1]))) >= 2
    /\ user_columns[1] \in DOMAIN suggestions
    /\ user_columns[2] \in DOMAIN suggestions

----------------------------------------------------------------------------
(* Properties of the analytics *)

(* C20: the revenue_by_segment values add up to the Monetary of all customers
   and the per-segment customer counts add up to n_customers, also when
   several clusters carry the same segment name *)
C20_SegmentTotalsAddUp ==
    an_pc = "returned" =>
        /\ SumOver(DOMAIN analytics.revenue_by_segment, analytics.revenue_by_segment)
               = SumSeq([i \in DOMAIN an_rfm |-> an_rfm[i].Monetary])
        /\ SumOver(DOMAIN analytics.cluster_counts, analytics.cluster_counts)
               = analytics.n_customers
        /\ analytics.n_customers = Len(an_rfm)

(* two clusters carry one name, a third cluster another *)
C20_Witness ==
    /\ an_pc = "returned"
    /\ \E i, j, k \in DOMAIN an_rfm :
        /\ an_rfm[i].Cluster # an_rfm[j].Cluster
        /\ an_rfm[i].Cluster_Name = an_rfm[j].Cluster_Name
        /\ an_rfm[k].Cluster_Name # an_rfm[i].Cluster_Name

----------------------------------------------------------------------------
(* Properties of the product analysis *)

TopReturned == top_pc = "returned"

(* the transaction rows of the segment's customers that name product d *)
RowsOfProduct(segment, d) ==
    {i \in DOMAIN top_args.df :
        /\ top_args.df[i].Description = Some(d)
        /\ \E r \in DOMAIN top_args.rfm :
              /\ top_args.rfm[r].CustomerID = top_args.df[i].CustomerID
              /\ top_args.rfm[r].Cluster_Name = segment}

(* C24: for every segment the result lists at most top_n products in order of
   non-increasing total quantity, each with the quantity and the revenue
   summed over the rows of that segment's customers only; without a
   Description column the result is empty and the call returns normally *)
C24_TopProductsPerSegment ==
    TopReturned =>
        IF HasDescription(top_args.df)
        THEN /\ DOMAIN top_products =
                    {top_args.rfm[r].Cluster_Name : r \in DOMAIN top_args.rfm}
             /\ \A g \in DOMAIN top_products :
                    /\ Len(top_products[g]) <= top_args.top_n
                    /\ \A i \in 1..(Len(top_products[g]) - 1) :
                           top_products[g][i].total_quantity
                               >= top_products[g][i + 1].total_quantity
                    /\ \A i \in DOMAIN top_products[g] :
                           LET rows == RowsOfProduct(g, top_products[g][i].product) IN
                           /\ rows # {}
                           /\ top_products[g][i].total_quantity =
                                  SumOver(rows, [j \in DOMAIN top_args.df |->
                                                    top_args.df[j].Quantity])
                           /\ top_products[g][i].total_revenue =
                                  SumOver(rows, [j \in DOMAIN top_args.df |->
                                                    top_args.df[j].TotalPrice])
        ELSE top_products = <<>>

(* two segments, one of them with two products of which top_n = 1 keeps one *)
C24_Witness ==
    /\ TopReturned
    /\ HasDescription(top_args.df)
    /\ top_args.top_n = 1
    /\ Cardinality(DOMAIN top_products) = 2
    /\ \E g \in DOMAIN top_products :
          /\ Len(top_products[g]) = 1
          /\ \E d \in Products :
                d # top_products[g][1].product /\ RowsOfProduct(g, d) # {}

----------------------------------------------------------------------------
(* Properties of the business records *)

(* C25: after a successful delete the record of the business is absent and no
   persisted scaler or partitioner of it remains, so the next retrain=false
   request for that name does not load the deleted model; delete answers
   not-found exactly when there was no record *)
C25_DeleteRemovesModel ==
    /\ (del_resp.op = "delete" /\ del_resp.status = 200) =>
           /\ del_resp.business \notin records
           /\ ~exists(store[del_resp.business].scaler)
           /\ ~exists(store[del_resp.business].kmeans)
    /\ (del_resp.op = "segment" /\ del_resp.after_delete /\ ~call.retrain) =>
           ~call.loaded
    /\ del_resp.op = "delete" => (del_resp.status = 404 <=> ~del_resp.existed)

----------------------------------------------------------------------------
(* Properties of the multi-method selector *)

FixedReturned == fx_pc = "returned" /\ fx_args.max_clusters >= 2

(* the k in 2..max_clusters with the highest silhouette score *)
BestSilhouetteK ==
    SetMin({k \in 2..fx_args.max_clusters :
               \A j \in 2..fx_args.max_clusters :
                   fx_args.silhouette_scores[j - 1] <= fx_args.silhouette_scores[k - 1]})

Clamped(k) == Max2(2, Min2(k, fx_args.max_clusters))

(* C28: the method argument is honoured: 'silhouette' reports the k with the
   highest silhouette score, 'elbow' the elbow point, each clamped to
   [2, max_clusters]; with all fits succeeding no method ends in the error
   fallback *)
C28_MethodHonoured ==
    FixedReturned =>
        /\ ~fx_out.error
        /\ fx_args.method = "silhouette" => fx_out.optimal_clusters = Clamped(BestSilhouetteK)
        /\ fx_args.method = "elbow" =>
               fx_out.optimal_clusters = Clamped(find_elbow_point(fx_args.wcss_values))

====
